---------------------------- MODULE Spec2Model ----------------------------
(***************************************************************************)
(* GCfit likelihood core: Observations, component dispatch                 *)
(* (determine_components), Model construction (Model.__init__),            *)
(* log_likelihood and posterior.                                           *)
(*                                                                         *)
(* Conventions                                                             *)
(*  - Parameter values are fixed-point integers, thousandths of the        *)
(*    Python float (6.405 is 6405).                                        *)
(*  - Python arrays are sequences; Python index i is element i + 1.        *)
(*  - A float result is a finite number or one of -inf, +inf, nan, added   *)
(*    by the IEEE-754 rules.                                               *)
(*  - A dataset key is the sequence of its words ("proper_motion/high_mass"*)
(*    is <<"proper_motion", "high_mass">>); fnmatch(key, '*w*') holds when *)
(*    the word w occurs in the key.                                        *)
(***************************************************************************)
EXTENDS Integers, Sequences, FiniteSets, TLC

VARIABLES
    obs,        \* the Observations: [datasets: Seq(dataset), mdata: set of keys]
    comps,      \* value returned by determine_components (L_components)
    dpc,        \* dispatch position: "loaded", "dispatched", "dispatch_raised"
    kdeFits,    \* number of calls of pulsar_Pdot_KDE so far
    pc,         \* position of the evaluation: "idle", "model", "solver",
                \* "components", "returned", "raised"
    entry,      \* which function was called: "none", "posterior", "log_likelihood"
    theta_free, \* posterior's theta argument (sequence of free values)
    fixed,      \* posterior's fixed_initials (function on a set of names)
    theta,      \* the full theta mapping handed to Model
    model,      \* the Model under construction / built for this theta
    probs,      \* per-component values computed so far
    result,     \* the returned tuple [total, individuals]
    exc,        \* the exception that escaped, or NoExc
    trace,      \* calls made during the current evaluation, in order
    binq,       \* the last direct call of a likelihood function: its
                \* arguments and the mass-bin indices it used
    call        \* a single function applied to given arguments:
                \* [op, in, out]; out.kind is "not called", then
                \* "value" (out.val returned) or "raise" (out.exc raised)

vars == <<obs, comps, dpc, kdeFits, pc, entry, theta_free, fixed, theta,
          model, probs, result, exc, trace, binq, call>>

dispatchVars == <<obs, comps, dpc, kdeFits>>
evalVars == <<pc, entry, theta_free, fixed, theta, model, probs, result, exc,
              trace, binq>>
progVars == <<dispatchVars, evalVars>>

---------------------------------------------------------------------------
(* Bounds of the model.                                                    *)

\* datasets per Observations in the dispatch specification
MaxDispatchDatasets == 2
\* datasets per Observations in the evaluation specification
MaxDatasets == 2

---------------------------------------------------------------------------
(* Generic helpers.                                                        *)

Range(s) == {s[i] : i \in 1..Len(s)}

\* index (1-based) of the first occurrence of x in s; list.index
IndexOf(s, x) == CHOOSE i \in 1..Len(s) : s[i] = x /\ \A j \in 1..(i-1) : s[j] # x

RECURSIVE Concat(_)
Concat(ss) == IF ss = <<>> THEN <<>> ELSE Head(ss) \o Concat(Tail(ss))

\* the sequences of length at most n over S whose elements have different keys
\* (a Python dict, an HDF5 file: one entry per key, in iteration order)
RECURSIVE DistinctKeySeqs(_, _)
DistinctKeySeqs(S, n) ==
    IF n = 0 THEN {<<>>}
    ELSE LET shorter == DistinctKeySeqs(S, n - 1)
             longest == {x \in shorter : Len(x) = n - 1}
         IN shorter \cup
            UNION {{Append(q, d) :
                        d \in {e \in S : \A j \in 1..Len(q) : q[j].key # e.key}} :
                   q \in longest}

---------------------------------------------------------------------------
(* Observations and Dataset (data.py).                                     *)
(* Variable names are written in ASCII: "sigma" is the variable σ, "Sigma" *)
(* is Σ, "D_X" is ΔX, "D_X_up" / "D_X_down" are ΔX,up / ΔX,down, "mu" is   *)
(* the cluster metadata μ.                                                 *)

\* Dataset metadata 'm': <<>> when the dataset has no entry 'm', <<v>> when
\* mdata['m'] is v (thousandths of a solar mass)
NoM == <<>>

PMVars == {"PM_tot", "PM_ratio", "PM_R", "PM_T"}

\* Dataset.__contains__: key in self._dict_variables
DatasetContains(ds, varname) == varname \in ds.vars

\* fnmatch.fnmatch(key, '*word*')
fnmatch(key, word) == \E i \in 1..Len(key) : key[i] = word

\* a Dataset as read by Dataset.__init__: its variables and its metadata
\* (r: the values of the variable 'r', used for pulsars; zeroErr: some entry of
\* an uncertainty variable is 0)
MkDataset(key, vs, m, r, zero) ==
    [key |-> key, vars |-> vs, m |-> m, r |-> r, zeroErr |-> zero]

\* Observations.__getitem__ for a dataset key
ObsGet(o, key) ==
    LET i == CHOOSE j \in 1..Len(o.datasets) : o.datasets[j].key = key
    IN o.datasets[i]

---------------------------------------------------------------------------
(* determine_components (likelihoods.py).                                  *)

PulsarMdata == {"mu", "b", "l"}

Component(key, fn, args) == [key |-> key, fn |-> fn, args |-> args]

\* the four tests chained with elif: only the first variable present counts
PMEntries_FirstOnly(ds) ==
    IF DatasetContains(ds, "PM_tot")
        THEN <<Component(ds.key, "likelihood_pm_tot", <<>>)>>
    ELSE IF DatasetContains(ds, "PM_ratio")
        THEN <<Component(ds.key, "likelihood_pm_ratio", <<>>)>>
    ELSE IF DatasetContains(ds, "PM_R")
        THEN <<Component(ds.key, "likelihood_pm_R", <<>>)>>
    ELSE IF DatasetContains(ds, "PM_T")
        THEN <<Component(ds.key, "likelihood_pm_T", <<>>)>>
    ELSE <<>>

\* the entries one proper_motion dataset contributes, lines 554-564
PMEntries(ds) ==
    (IF DatasetContains(ds, "PM_tot")
        THEN <<Component(ds.key, "likelihood_pm_tot", <<>>)>> ELSE <<>>)
    \o (IF DatasetContains(ds, "PM_ratio")
        THEN <<Component(ds.key, "likelihood_pm_ratio", <<>>)>> ELSE <<>>)
    \o (IF DatasetContains(ds, "PM_R")
        THEN <<Component(ds.key, "likelihood_pm_R", <<>>)>> ELSE <<>>)
    \o (IF DatasetContains(ds, "PM_T")
        THEN <<Component(ds.key, "likelihood_pm_T", <<>>)>> ELSE <<>>)

\* the branch of the if/elif chain of lines 541-567 that a key takes
Branch(key) ==
    IF fnmatch(key, "pulsar") THEN "pulsar"
    ELSE IF fnmatch(key, "velocity_dispersion") THEN "velocity_dispersion"
    ELSE IF fnmatch(key, "number_density") THEN "number_density"
    ELSE IF fnmatch(key, "proper_motion") THEN "proper_motion"
    ELSE IF fnmatch(key, "mass_function") THEN "mass_function"
    ELSE "none"

\* the loop of determine_components from dataset i on; acc is comps so far,
\* fits the number of pulsar_Pdot_KDE() calls so far.  The pulsar branch
\* reads obs.mdata['μ'], ['b'], ['l'] (KeyError when absent) before it
\* fits the KDE.
RECURSIVE DetermineFrom(_, _, _, _)
DetermineFrom(o, i, acc, fits) ==
    IF i > Len(o.datasets)
    THEN [raised |-> FALSE, comps |-> acc, fits |-> fits]
    ELSE LET ds == o.datasets[i]
             br == Branch(ds.key)
         IN CASE br = "pulsar" ->
                   IF ~(PulsarMdata \subseteq o.mdata)
                   THEN [raised |-> TRUE, comps |-> acc, fits |-> fits]
                   ELSE DetermineFrom(o, i + 1,
                            Append(acc, Component(ds.key, "likelihood_pulsar",
                                                  <<"Pdot_kde", "mu", "coords">>)),
                            fits + 1)
              [] br = "velocity_dispersion" ->
                   DetermineFrom(o, i + 1,
                       Append(acc, Component(ds.key, "likelihood_LOS", <<>>)), fits)
              [] br = "number_density" ->
                   DetermineFrom(o, i + 1,
                       Append(acc, Component(ds.key, "likelihood_number_density", <<>>)),
                       fits)
              [] br = "proper_motion" ->
                   DetermineFrom(o, i + 1, acc \o PMEntries(ds), fits)
              [] br = "mass_function" ->
                   DetermineFrom(o, i + 1,
                       Append(acc, Component(ds.key, "likelihood_mass_func", <<>>)), fits)
              [] OTHER -> DetermineFrom(o, i + 1, acc, fits)

Reverse(q) == [k \in 1..Len(q) |-> q[Len(q) + 1 - k]]

\* the components inserted at the front of the list instead of appended
determine_components_Prepending(o) ==
    [DetermineFrom(o, 1, <<>>, 0) EXCEPT !.comps = Reverse(@)]

determine_components(o) == DetermineFrom(o, 1, <<>>, 0)

---------------------------------------------------------------------------
(* Parameters (data.py DEFAULT_INITIALS) and posterior's theta handling.   *)

\* list(DEFAULT_INITIALS): the canonical order
Params == <<"W0", "M", "rh", "ra", "g", "delta", "s2", "F",
            "a1", "a2", "a3", "BHret", "d">>

ParamNames == Range(Params)

\* DEFAULT_INITIALS, in thousandths
DEFAULT_INITIALS ==
    [n \in ParamNames |->
        CASE n = "W0" -> 6000   [] n = "M" -> 690     [] n = "rh" -> 2880
          [] n = "ra" -> 1230   [] n = "g" -> 750     [] n = "delta" -> 450
          [] n = "s2" -> 100    [] n = "F" -> 450     [] n = "a1" -> 500
          [] n = "a2" -> 1300   [] n = "a3" -> 2500   [] n = "BHret" -> 500
          [] n = "d" -> 6405]

\* the order in which posterior's prior expression reads theta, lines 603-609
PriorOrder == <<"W0", "rh", "M", "ra", "g", "delta", "s2", "F",
                "a1", "a2", "a3", "BHret", "d">>

\* lower and upper prior bounds, in thousandths, lines 603-609
PriorLo(n) ==
    CASE n = "W0" -> 3000   [] n = "rh" -> 500    [] n = "M" -> 10
      [] n = "ra" -> 0      [] n = "g" -> 0       [] n = "delta" -> 300
      [] n = "s2" -> 0      [] n = "F" -> 100     [] n = "a1" -> -2000
      [] n = "a2" -> -2000  [] n = "a3" -> -2000  [] n = "BHret" -> 0
      [] n = "d" -> 4000

PriorHi(n) ==
    CASE n = "W0" -> 20000  [] n = "rh" -> 15000  [] n = "M" -> 10000
      [] n = "ra" -> 5000   [] n = "g" -> 2300    [] n = "delta" -> 500
      [] n = "s2" -> 10000  [] n = "F" -> 500     [] n = "a1" -> 6000
      [] n = "a2" -> 6000   [] n = "a3" -> 6000   [] n = "BHret" -> 100000
      [] n = "d" -> 8000

\* the conjunct with closed bounds, lo <= theta[n] <= hi
WithinPrior_Closed(n, v) == PriorLo(n) <= v /\ v <= PriorHi(n)

\* one conjunct lo < theta[n] < hi of the prior expression
WithinPrior(n, v) == PriorLo(n) < v /\ v < PriorHi(n)

\* the prior expression, evaluated left to right with Python's short-circuit
\* `and`: "outside" at the first conjunct that is false, "KeyError" at the first
\* name theta lacks, "inside" when all thirteen conjuncts are true
RECURSIVE PriorFrom(_, _)
PriorFrom(th, i) ==
    IF i > Len(PriorOrder) THEN "inside"
    ELSE LET n == PriorOrder[i]
         IN IF n \notin DOMAIN th THEN "KeyError"
            ELSE IF ~WithinPrior(n, th[n]) THEN "outside"
            ELSE PriorFrom(th, i + 1)

\* a prior expression that leaves the last conjunct (4 < d < 8) out
PriorCheck_WithoutDistance(th) ==
    IF PriorFrom(th, 1) = "outside"
       /\ \A i \in 1..(Len(PriorOrder) - 1) :
             PriorOrder[i] \in DOMAIN th /\ WithinPrior(PriorOrder[i], th[PriorOrder[i]])
    THEN "inside"
    ELSE PriorFrom(th, 1)

PriorCheck(th) == PriorFrom(th, 1)

\* sorted(S, key=list(DEFAULT_INITIALS).index)
RECURSIVE SortByIndex(_)
SortByIndex(S) ==
    IF S = {} THEN <<>>
    ELSE LET first == CHOOSE n \in S :
                        \A o \in S : IndexOf(Params, n) <= IndexOf(Params, o)
         IN <<first>> \o SortByIndex(S \ {first})

\* sorted(..., reverse=True)
VariableParams_Reversed(fx) == Reverse(SortByIndex(ParamNames \ DOMAIN fx))

\* lines 595-596: the free parameter names, in canonical order
VariableParams(fx) == SortByIndex(ParamNames \ DOMAIN fx)

\* line 599: dict(zip(params, theta), **fixed_initials); zip stops at the
\* shorter of the two, the keyword arguments are added after the zipped pairs
MergeTheta(tf, fx) ==
    LET params == VariableParams(fx)
        n      == IF Len(params) < Len(tf) THEN Len(params) ELSE Len(tf)
        zipped == {params[k] : k \in 1..n}
    IN [name \in zipped \cup DOMAIN fx |->
            IF name \in DOMAIN fx THEN fx[name]
            ELSE tf[IndexOf(params, name)]]

---------------------------------------------------------------------------
(* Float results: [k |-> "fin", v |-> n] for the number n, and the three  *)
(* IEEE-754 specials "-inf", "+inf", "nan" (v is 0 for them).              *)

Fin(n) == [k |-> "fin", v |-> n]
NegInf == [k |-> "-inf", v |-> 0]
PosInf == [k |-> "+inf", v |-> 0]
NaN == [k |-> "nan", v |-> 0]

IsFinite(x) == x.k = "fin"

\* IEEE-754 addition
FAdd(a, b) ==
    IF a.k = "nan" \/ b.k = "nan" THEN NaN
    ELSE IF a.k = "fin" /\ b.k = "fin" THEN Fin(a.v + b.v)
    ELSE IF a.k = "fin" THEN b
    ELSE IF b.k = "fin" THEN a
    ELSE IF a.k = b.k THEN a
    ELSE NaN

\* Python's sum(probs): 0 + probs[0] + probs[1] + ...
RECURSIVE SumFrom(_, _, _)
SumFrom(ps, i, acc) ==
    IF i > Len(ps) THEN acc ELSE SumFrom(ps, i + 1, FAdd(acc, ps[i]))

PySum(ps) == SumFrom(ps, 1, Fin(0))

\* -np.inf * np.ones(n)
NegInfArray(n) == [k \in 1..n |-> NegInf]

---------------------------------------------------------------------------
(* Exceptions.  type is the Python class raised, cond the condition it     *)
(* stands for.                                                             *)

Exc(type, cond) == [type |-> type, cond |-> cond]
NoExc == Exc("none", "none")

---------------------------------------------------------------------------
(* Model.__init__ (data.py).                                               *)

\* the elements of s whose mask entry is TRUE (numpy boolean indexing)
RECURSIVE MaskFrom(_, _, _)
MaskFrom(s, mask, i) ==
    IF i > Len(s) THEN <<>>
    ELSE (IF mask[i] THEN <<s[i]>> ELSE <<>>) \o MaskFrom(s, mask, i + 1)

Masked(s, mask) == MaskFrom(s, mask, 1)

\* lines 378-383: theta as a mapping; a sequence is zipped against
\* DEFAULT_INITIALS (zip stops at the shorter)
UnpackTheta(th) ==
    IF th.kind = "dict" THEN th.val
    ELSE LET n == IF Len(th.val) < Len(Params) THEN Len(th.val) ELSE Len(Params)
         IN [name \in {Params[k] : k \in 1..n} |-> th.val[IndexOf(Params, name)]]

\* the difference taken the wrong way round: theta.keys() - DEFAULT_INITIALS.keys()
MissingParams_Reversed(th) == DOMAIN UnpackTheta(th) \ ParamNames

\* line 381: DEFAULT_INITIALS.keys() - theta.keys()
MissingParams(th) == ParamNames \ DOMAIN UnpackTheta(th)

\* lines 404-407: the m of every dataset that has one, in iteration order
RECURSIVE TracersFrom(_, _)
TracersFrom(dss, i) ==
    IF i > Len(dss) THEN <<>>
    ELSE dss[i].m \o TracersFrom(dss, i + 1)

TracerMj(o) == TracersFrom(o.datasets, 1)

\* line 410: 0.1 * np.ones_like(tracer_mj), in thousandths
TracerMass == 100

\* the tracer bins put in front of the evolved bins instead of after them
MassBins_TracersFirst(mfo, o, hasObs) ==
    LET mj0 == Masked(mfo.ms, mfo.cs) \o Masked(mfo.mr, mfo.cr)
        Mj0 == Masked(mfo.Ms, mfo.cs) \o Masked(mfo.Mr, mfo.cr)
        tr  == IF hasObs THEN TracerMj(o) ELSE <<>>
    IN [mj  |-> tr \o mj0,
        Mj  |-> [k \in 1..Len(tr) |-> TracerMass] \o Mj0,
        nms |-> Len(Masked(mfo.ms, mfo.cs)),
        mes_widths |-> [k \in 1..(Len(mfo.mes) - 1) |-> mfo.mes[k + 1] - mfo.mes[k]]]

\* lines 394-417: the mass bins from the evolved mass function mfo and the
\* Observations o (hasObs: observations is not None).
\* mfo.ms, mfo.Ms, mfo.mr, mfo.Mr are the last rows of the service's arrays,
\* mfo.cs[i] is Ns[-1][i] > 10 * Nmin, mfo.cr[i] is Nr[-1][i] > 10 * Nmin,
\* mfo.mes the bin edges.
MassBins(mfo, o, hasObs) ==
    LET mj0 == Masked(mfo.ms, mfo.cs) \o Masked(mfo.mr, mfo.cr)
        Mj0 == Masked(mfo.Ms, mfo.cs) \o Masked(mfo.Mr, mfo.cr)
        tr  == IF hasObs THEN TracerMj(o) ELSE <<>>
    IN [mj  |-> mj0 \o tr,
        Mj  |-> Mj0 \o [k \in 1..Len(tr) |-> TracerMass],
        nms |-> Len(Masked(mfo.ms, mfo.cs)),
        mes_widths |-> [k \in 1..(Len(mfo.mes) - 1) |-> mfo.mes[k + 1] - mfo.mes[k]]]

\* a Model on which nothing has been set yet
NoModel ==
    [theta |-> <<>>, mj |-> <<>>, Mj |-> <<>>, nms |-> 0, mes_widths |-> <<>>,
     rt |-> 0, d |-> 0, dscaled |-> 0, built |-> FALSE]

---------------------------------------------------------------------------
(* Likelihood components (likelihoods.py).                                 *)

\* np.where(model.mj == m)[0][0]: the first Python index whose entry equals m,
\* <<>> when there is none (then [0][0] raises IndexError)
FirstIndexEqual(mj, m) ==
    IF \E i \in 1..Len(mj) : mj[i] = m
    THEN <<IndexOf(mj, m) - 1>>
    ELSE <<>>

\* a default of model.nms where the code has model.nms - 1
ResolveMassBin_DefaultNms(fn, mass_bin, ds, mdl) ==
    IF mass_bin # <<>> THEN mass_bin
    ELSE IF ds.m # <<>> THEN FirstIndexEqual(mdl.mj, ds.m[1])
    ELSE IF fn = "likelihood_pulsar" THEN <<-1>>
    ELSE <<mdl.nms>>

\* the mass_bin a component uses: lines 157-162 (pulsar) and 294-298, 345-349,
\* 371-375, 396-400, 420-424, 444-448 (the others).  mass_bin is <<>> for None.
\* The result is <<bin>>, or <<>> when the lookup raises IndexError.
ResolveMassBin(fn, mass_bin, ds, mdl) ==
    IF mass_bin # <<>> THEN mass_bin
    ELSE IF ds.m # <<>> THEN FirstIndexEqual(mdl.mj, ds.m[1])
    ELSE IF fn = "likelihood_pulsar" THEN <<-1>>
    ELSE <<mdl.nms - 1>>

\* the position a Python index i addresses in an array of length n
PyIndex(n, i) == IF i < 0 THEN i + n ELSE i

\* the Python indices into the per-bin model arrays (mj, Sigmaj, v2Tj, ...)
\* that a component uses.  likelihood_mass_func takes no mass_bin and loops
\* over range(model.nms), lines 466-492.
BinsRead(fn, mass_bin, ds, mdl) ==
    IF fn = "likelihood_mass_func" THEN 0..(mdl.nms - 1)
    ELSE LET b == ResolveMassBin(fn, mass_bin, ds, mdl)
         IN IF b = <<>> THEN {} ELSE {b[1]}

\* an index Python accepts for an array of length n
InRange(n, i) == 0 <= PyIndex(n, i) /\ PyIndex(n, i) < n

\* the observed variable a Gaussian component compares
ObservedVar(fn) ==
    CASE fn = "likelihood_LOS" -> "sigma"
      [] fn = "likelihood_pm_tot" -> "PM_tot"
      [] fn = "likelihood_pm_ratio" -> "PM_ratio"
      [] fn = "likelihood_pm_R" -> "PM_R"
      [] fn = "likelihood_pm_T" -> "PM_T"

\* Dataset.build_err, data.py lines 156-178: "sym" when ΔX is there, else "asym"
\* when ΔX,up and ΔX,down are there (X and r are then read as well), else the
\* ValueError; a KeyError of X or r inside the handler propagates
BuildErr(ds, X) ==
    IF ("D_" \o X) \in ds.vars THEN "sym"
    ELSE IF ~({("D_" \o X) \o "_up", ("D_" \o X) \o "_down"} \subseteq ds.vars)
         THEN "ValueError"
    ELSE IF ~({X, "r"} \subseteq ds.vars) THEN "KeyError"
    ELSE "asym"

\* the variables a component reads from its dataset with dataset[...]
VarsRead(fn) ==
    CASE fn = "likelihood_pulsar" -> {"r", "P", "Pdot_meas", "D_Pdot_meas"}
      [] fn = "likelihood_number_density" -> {"Sigma", "D_Sigma", "r"}
      [] fn = "likelihood_mass_func" -> {"bin", "mbin_mean", "N", "mbin_width", "D_mbin"}
      [] OTHER -> {"r", ObservedVar(fn)}

\* finite values a component may compute
FiniteValues == {Fin(-2), Fin(-7)}

Value(x) == [kind |-> "value", val |-> x, exc |-> NoExc]
Raise(e) == [kind |-> "raise", val |-> NaN, exc |-> e]

\* the bound test with a strict comparison: a pulsar exactly at rt passes
OutOfBoundsRadius_Strict(mdl, R) == R > mdl.rt

\* cluster_component, pulsars.py lines 35-38: `if R >= model.rt: raise ValueError`
OutOfBoundsRadius(mdl, R) == R >= mdl.rt

\* what one call likelihood(model, observations[key], *args) can end in
ComponentOutcomes(fn, mass_bin, ds, mdl) ==
    LET bin == ResolveMassBin(fn, mass_bin, ds, mdl)
    IN
    IF fn # "likelihood_mass_func" /\ bin = <<>>
    THEN {Raise(Exc("IndexError", "NoMatchingMassBin"))}
    ELSE IF fn # "likelihood_mass_func" /\ ~InRange(Len(mdl.mj), bin[1])
    THEN {Raise(Exc("IndexError", "MassBinOutOfRange"))}
    ELSE CASE fn = "likelihood_pulsar" ->
                \* line 168 onwards: the variables, then per pulsar the cluster
                \* acceleration distribution, which raises ValueError when
                \* R >= model.rt (pulsars.py lines 37-38); the result is
                \* np.sum(np.log(probs)), -inf when a probability is 0
                IF ~(VarsRead(fn) \subseteq ds.vars)
                THEN {Raise(Exc("KeyError", "MissingVariable"))}
                ELSE IF \E i \in 1..Len(ds.r) : OutOfBoundsRadius(mdl, ds.r[i])
                THEN {Raise(Exc("ValueError", "OutOfBoundsRadius"))}
                ELSE {Value(x) : x \in FiniteValues \cup {NegInf}}
           [] fn = "likelihood_number_density" ->
                \* lines 301-340: yerr ** 2 = obs_err ** 2 + s2 with s2 > 0
                IF ~(VarsRead(fn) \subseteq ds.vars)
                THEN {Raise(Exc("KeyError", "MissingVariable"))}
                ELSE {Value(x) : x \in FiniteValues}
           [] fn = "likelihood_mass_func" ->
                IF ~(VarsRead(fn) \subseteq ds.vars)
                THEN {Raise(Exc("KeyError", "MissingVariable"))}
                ELSE {Value(x) : x \in FiniteValues}
           [] OTHER ->
                \* the Gaussian components: build_err, then
                \* -0.5 * sum((obs - model) ** 2 / err ** 2 + log(err ** 2)),
                \* which is nan when an err is 0 (x / 0 + log(0))
                LET e == BuildErr(ds, ObservedVar(fn))
                IN IF e = "ValueError"
                   THEN {Raise(Exc("ValueError", "MissingUncertainty"))}
                   ELSE IF e = "KeyError" \/ ~(VarsRead(fn) \subseteq ds.vars)
                   THEN {Raise(Exc("KeyError", "MissingVariable"))}
                   ELSE IF ds.zeroErr THEN {Value(NaN)}
                   ELSE {Value(x) : x \in FiniteValues}

\* Unit conversions (likelihoods.py lines 23-49).  model.d is an astropy
\* Quantity (data.py line 368: self.d *= u.kpc), and pc2arcsec and as2pc
\* begin with `d *= 1000` on the argument they are handed, which multiplies
\* that Quantity in place.  A distance is held as [kpc, e3]: the value
\* kpc * 1000^e3, in thousandths of a kpc.
Times1000(d) == [d EXCEPT !.e3 = @ + 1]

\* each conversion yields the distance it leaves behind and a value that
\* depends on the quantity converted and on the distance it was computed with
pc2arcsec(r, d) ==
    [d |-> Times1000(d), val |-> [unit |-> "arcsec", of |-> r, with |-> Times1000(d)]]

as2pc(th, d) ==
    [d |-> Times1000(d), val |-> [unit |-> "pc", of |-> th, with |-> Times1000(d)]]

\* line 39: asyr = pc2arcsec(pcyr, d); masyr = 1000 * asyr
kms2masyr(kms, d) ==
    [pc2arcsec(kms, d) EXCEPT !.val.unit = "masyr"]

\* line 47: pcyr = as2pc(asyr, d)
masyr2kms(masyr, d) ==
    [as2pc(masyr, d) EXCEPT !.val.unit = "kms"]

Convert(conv, x, d) ==
    CASE conv = "pc2arcsec" -> pc2arcsec(x, d)
      [] conv = "as2pc" -> as2pc(x, d)
      [] conv = "kms2masyr" -> kms2masyr(x, d)
      [] conv = "masyr2kms" -> masyr2kms(x, d)

\* the conversions a component applies to model.d when it runs to its end,
\* in call order; likelihood_mass_func calls as2pc twice per annulus
\* (lines 475-476), and likelihood_pulsar only reads model.d
ConversionsOf(fn, annuli) ==
    CASE fn = "likelihood_LOS" -> <<"pc2arcsec">>
      [] fn = "likelihood_pm_ratio" -> <<"pc2arcsec">>
      [] fn = "likelihood_pm_tot" -> <<"pc2arcsec", "kms2masyr">>
      [] fn = "likelihood_pm_T" -> <<"pc2arcsec", "kms2masyr">>
      [] fn = "likelihood_pm_R" -> <<"pc2arcsec", "kms2masyr">>
      [] fn = "likelihood_number_density" -> <<"pc2arcsec">>
      [] fn = "likelihood_mass_func" ->
            Concat([a \in 1..annuli |-> <<"as2pc", "as2pc">>])
      [] fn = "likelihood_pulsar" -> <<>>

\* the conversions a component has applied when it ends in `out`: none when
\* the mass bin is not found (np.where(...)[0][0] comes first), when
\* likelihood_pm_tot indexes v2Tj (line 351), when likelihood_number_density
\* or likelihood_mass_func misses a variable read before the first conversion;
\* the first one when the per-bin array is indexed after pc2arcsec; all of
\* them otherwise.  The mass-function datasets here hold one annulus.
ConversionsBefore(fn, out, ds) ==
    LET all == ConversionsOf(fn, 1)
    IN
    IF out.kind = "value" THEN all
    ELSE IF out.exc.cond = "NoMatchingMassBin" THEN <<>>
    ELSE IF out.exc.cond = "MassBinOutOfRange"
    THEN (IF fn \in {"likelihood_pm_tot", "likelihood_pulsar"} THEN <<>>
          ELSE <<"pc2arcsec">>)
    ELSE IF out.exc.cond = "MissingVariable"
    THEN (IF fn \in {"likelihood_number_density", "likelihood_pulsar"} THEN <<>>
          ELSE IF fn = "likelihood_mass_func" /\ "bin" \notin ds.vars THEN <<>>
          ELSE all)
    ELSE all

\* model.d after the conversions convs
RECURSIVE ApplyConversions(_, _)
ApplyConversions(d, convs) ==
    IF convs = <<>> THEN d
    ELSE ApplyConversions(Convert(Head(convs), 0, d).d, Tail(convs))

\* the model a component leaves behind
AfterComponent(mdl, fn, out, ds) ==
    [mdl EXCEPT !.dscaled =
        ApplyConversions([kpc |-> mdl.d, e3 |-> mdl.dscaled],
                         ConversionsBefore(fn, out, ds)).e3]

---------------------------------------------------------------------------
(* Inputs of the evaluation specification.                                 *)

EmptyMap == [n \in {} |-> 0]

PulsarVars == {"r", "P", "Pdot_meas", "D_Pdot_meas"}
MassFuncVars == {"bin", "mbin_mean", "N", "mbin_width", "D_mbin"}

\* the datasets an Observations of the evaluation specification is made of
EvalDatasets ==
    { MkDataset(<<"pulsar">>, PulsarVars, <<1400>>, <<1, 3>>, FALSE),
      MkDataset(<<"pulsar">>, PulsarVars, NoM, <<1>>, FALSE),
      MkDataset(<<"velocity_dispersion">>, {"r", "sigma", "D_sigma"}, NoM, <<1>>, FALSE),
      MkDataset(<<"velocity_dispersion">>, {"r", "sigma", "D_sigma"}, NoM, <<1>>, TRUE),
      MkDataset(<<"velocity_dispersion">>, {"r", "sigma"}, NoM, <<1>>, FALSE),
      MkDataset(<<"number_density">>, {"r", "Sigma", "D_Sigma"}, NoM, <<1>>, FALSE),
      MkDataset(<<"proper_motion", "high_mass">>,
                {"r", "PM_tot", "D_PM_tot", "PM_R", "D_PM_R_up", "D_PM_R_down"},
                <<500>>, <<1>>, FALSE),
      MkDataset(<<"mass_function">>, MassFuncVars, NoM, <<1>>, FALSE) }

EvalObservations ==
    {[datasets |-> dss, mdata |-> PulsarMdata] :
        dss \in DistinctKeySeqs(EvalDatasets, MaxDatasets)}

\* what the mass-function evolution service may return: two stellar bins and
\* one remnant bin, each above or below the 10 * Nmin cutoff, at least one
\* stellar bin above it
MfOut(cs, cr) ==
    [ms |-> <<200, 500>>, Ms |-> <<2000, 5000>>, cs |-> cs,
     mr |-> <<600>>, Mr |-> <<6000>>, cr |-> cr,
     mes |-> <<100, 300, 700>>]

EvalMfOutputs ==
    {MfOut(cs, cr) : cs \in {c \in [1..2 -> BOOLEAN] : c[1] \/ c[2]},
                     cr \in [1..1 -> BOOLEAN]}

\* truncation radii of a converged profile (same unit as the pulsars' r)
RtChoices == {2, 5}

\* full thetas: the defaults, one parameter on its lower prior bound, one
\* parameter above its upper prior bound, one parameter just inside
ThetaCases ==
    {DEFAULT_INITIALS}
    \cup {[DEFAULT_INITIALS EXCEPT ![n] = PriorLo(n)] : n \in ParamNames}
    \cup {[DEFAULT_INITIALS EXCEPT ![n] = PriorHi(n)] : n \in ParamNames}
    \cup {[DEFAULT_INITIALS EXCEPT ![n] = PriorHi(n) + 1] : n \in ParamNames}
    \cup {[DEFAULT_INITIALS EXCEPT !["W0"] = PriorLo("W0") + 1]}

EvalFixedSets == {{}, {"M", "d"}}

\* the caller's side of posterior: a full theta th split into the values of
\* the free names, in canonical order, and the fixed names' values
FreeNames(F) == SelectSeq(Params, LAMBDA n : n \notin F)

SplitTheta(th, F) ==
    [tf |-> [k \in 1..Len(FreeNames(F)) |-> th[FreeNames(F)[k]]],
     fx |-> [n \in F |-> th[n]]]

\* the (theta, fixed_initials) pairs posterior is called with: the split of
\* every case, and the defaults with the last free value left out
PosteriorInputs ==
    {SplitTheta(th, F) : th \in ThetaCases, F \in EvalFixedSets}
    \cup {[tf |-> SubSeq(SplitTheta(DEFAULT_INITIALS, F).tf, 1,
                         Len(FreeNames(F)) - 1),
           fx |-> SplitTheta(DEFAULT_INITIALS, F).fx] : F \in EvalFixedSets}
    \cup {[tf |-> SubSeq(SplitTheta([DEFAULT_INITIALS EXCEPT !["W0"] = PriorLo("W0")],
                                    {}).tf, 1, Len(Params) - 1),
           fx |-> EmptyMap]}

DefaultSeq == [k \in 1..Len(Params) |-> DEFAULT_INITIALS[Params[k]]]

\* the thetas log_likelihood / Model is called with directly
LogLikelihoodInputs ==
    { [kind |-> "dict", val |-> DEFAULT_INITIALS],
      [kind |-> "dict", val |-> [n \in ParamNames \ {"d"} |-> DEFAULT_INITIALS[n]]],
      [kind |-> "seq", val |-> DefaultSeq],
      [kind |-> "seq", val |-> SubSeq(DefaultSeq, 1, Len(Params) - 1)] }

NoTheta == [kind |-> "dict", val |-> EmptyMap]

\* no single function is applied
NotCalled == [kind |-> "not called"]
NoCall == [op |-> "none", in |-> <<>>, out |-> NotCalled]

\* no likelihood function has been called directly
NoQuery == [fn |-> "none", key |-> <<>>, mass_bin |-> <<>>, bins |-> {}]

---------------------------------------------------------------------------
(* Actions.                                                                *)

Call(name, k) == [call |-> name, k |-> k]

\* determine_components(obs), run once for the loaded Observations
DetermineComponents ==
    /\ dpc = "loaded"
    /\ LET r == determine_components(obs)
       IN /\ comps' = r.comps
          /\ kdeFits' = kdeFits + r.fits
          /\ dpc' = IF r.raised THEN "dispatch_raised" ELSE "dispatched"
    /\ UNCHANGED <<obs>>
    /\ UNCHANGED <<evalVars, call>>

\* a failure value with one per-component entry whatever len(L_components) is
FailedReturn_OneEntry(who, n) ==
    IF who = "posterior" THEN <<NegInf, NegInf>> ELSE <<NegInf, <<NegInf>>>>

\* what log_likelihood returns when the Model raised ValueError (line 580),
\* as posterior passes it on (line 617: probability, *individuals)
FailedReturn(who, n) ==
    IF who = "posterior" THEN <<NegInf>> \o NegInfArray(n)
    ELSE <<NegInf, NegInfArray(n)>>

\* line 588, as posterior passes it on
ComputedReturn(who, ps) ==
    IF who = "posterior" THEN <<PySum(ps)>> \o ps
    ELSE <<PySum(ps), ps>>

\* line 613: -np.inf, *(-np.inf * np.ones(len(L_components)))
PriorReturn(n) == <<NegInf>> \o NegInfArray(n)

\* posterior, lines 592-613: merge theta, evaluate the prior
PosteriorCall ==
    /\ pc = "idle"
    /\ dpc = "dispatched"
    /\ \E in \in PosteriorInputs :
         LET th == MergeTheta(in.tf, in.fx)
             pr == PriorCheck(th)
         IN /\ theta_free' = in.tf
            /\ fixed' = in.fx
            /\ theta' = [kind |-> "dict", val |-> th]
            /\ entry' = "posterior"
            /\ trace' = <<>>
            /\ probs' = <<>>
            /\ model' = NoModel
            /\ CASE pr = "outside" ->
                      /\ result' = PriorReturn(Len(comps))
                      /\ exc' = NoExc
                      /\ pc' = "returned"
                 [] pr = "KeyError" ->
                      /\ result' = <<>>
                      /\ exc' = Exc("KeyError", "MissingParameter")
                      /\ pc' = "raised"
                 [] OTHER ->
                      /\ result' = <<>>
                      /\ exc' = NoExc
                      /\ pc' = "model"
    /\ UNCHANGED <<dispatchVars, binq, call>>

\* log_likelihood called directly with a theta mapping or sequence
LogLikelihoodCall ==
    /\ pc = "idle"
    /\ dpc = "dispatched"
    /\ \E th \in LogLikelihoodInputs :
         /\ theta' = th
         /\ entry' = "log_likelihood"
    /\ theta_free' = <<>>
    /\ fixed' = EmptyMap
    /\ trace' = <<>>
    /\ probs' = <<>>
    /\ model' = NoModel
    /\ result' = <<>>
    /\ exc' = NoExc
    /\ pc' = "model"
    /\ UNCHANGED <<dispatchVars, binq, call>>

\* Model(theta, observations) constructed directly, to call a likelihood
\* function on it
ModelCall ==
    /\ pc = "idle"
    /\ dpc = "dispatched"
    /\ theta' = [kind |-> "dict", val |-> DEFAULT_INITIALS]
    /\ entry' = "Model"
    /\ theta_free' = <<>>
    /\ fixed' = EmptyMap
    /\ trace' = <<>>
    /\ probs' = <<>>
    /\ model' = NoModel
    /\ result' = <<>>
    /\ exc' = NoExc
    /\ pc' = "model"
    /\ UNCHANGED <<dispatchVars, binq, call>>

\* Model.__init__ lines 372-417: unpack theta (KeyError when a name is
\* missing, which log_likelihood's `except ValueError` does not catch), call
\* the mass-function service, lay out the mass bins
ModelInit ==
    /\ pc = "model"
    /\ IF MissingParams(theta) # {}
       THEN /\ exc' = Exc("KeyError", "MissingParameter")
            /\ pc' = "raised"
            /\ UNCHANGED <<model, trace>>
       ELSE \E mfo \in EvalMfOutputs :
              LET b == MassBins(mfo, obs, TRUE)
              IN /\ model' = [model EXCEPT !.theta = UnpackTheta(theta),
                                           !.mj = b.mj, !.Mj = b.Mj,
                                           !.nms = b.nms,
                                           !.mes_widths = b.mes_widths]
                 /\ trace' = Append(trace, Call("evolve_mf", 0))
                 /\ pc' = "solver"
                 /\ UNCHANGED exc
    /\ UNCHANGED <<entry, theta_free, fixed, theta, probs, result>>
    /\ UNCHANGED <<dispatchVars, binq, call>>

\* Model.__init__ lines 423-440: the profile solver converges (then the units
\* are assigned and log_likelihood goes on to the components) ...
SolverConverges ==
    /\ pc = "solver"
    /\ \E rt \in RtChoices :
         model' = [model EXCEPT !.rt = rt, !.d = model.theta["d"], !.built = TRUE]
    /\ trace' = Append(trace, Call("limepy", 0))
    /\ pc' = IF entry = "Model" THEN "built" ELSE "components"
    /\ UNCHANGED <<entry, theta_free, fixed, theta, probs, result, exc>>
    /\ UNCHANGED <<dispatchVars, binq, call>>

\* ... or raises ValueError, which log_likelihood catches (lines 578-580)
\* and a direct caller of Model gets
SolverFails ==
    /\ pc = "solver"
    /\ trace' = Append(trace, Call("limepy", 0))
    /\ IF entry = "Model"
       THEN /\ exc' = Exc("ValueError", "NonConvergence")
            /\ pc' = "raised"
            /\ UNCHANGED result
       ELSE /\ result' = FailedReturn(entry, Len(comps))
            /\ pc' = "returned"
            /\ UNCHANGED exc
    /\ UNCHANGED <<entry, theta_free, fixed, theta, model, probs>>
    /\ UNCHANGED <<dispatchVars, binq, call>>

\* lines 583-586: the next component of L_components, in list order; an
\* exception it raises is caught nowhere
EvalComponent ==
    /\ pc = "components"
    /\ Len(probs) < Len(comps)
    /\ LET k  == Len(probs) + 1
           c  == comps[k]
           ds == ObsGet(obs, c.key)
       IN \E out \in ComponentOutcomes(c.fn, <<>>, ds, model) :
            /\ trace' = Append(trace, Call("likelihood", k))
            /\ model' = AfterComponent(model, c.fn, out, ds)
            /\ IF out.kind = "value"
               THEN /\ probs' = Append(probs, out.val)
                    /\ UNCHANGED <<pc, exc>>
               ELSE /\ exc' = out.exc
                    /\ pc' = "raised"
                    /\ UNCHANGED probs
    /\ UNCHANGED <<entry, theta_free, fixed, theta, result>>
    /\ UNCHANGED <<dispatchVars, binq, call>>

\* the mass_bin arguments a likelihood function is called with directly;
\* likelihood_mass_func has no such parameter (line 466)
MassBinArgs(fn) ==
    IF fn = "likelihood_mass_func" THEN {<<>>} ELSE {<<>>, <<0>>, <<1>>, <<-1>>}

\* a likelihood function called on a built Model and one dataset, with or
\* without an explicit mass_bin
LikelihoodCall ==
    /\ pc = "built"
    /\ \E k \in 1..Len(comps) :
         \E mb \in MassBinArgs(comps[k].fn) :
           LET c  == comps[k]
               ds == ObsGet(obs, c.key)
           IN \E out \in ComponentOutcomes(c.fn, mb, ds, model) :
                /\ binq' = [fn |-> c.fn, key |-> c.key, mass_bin |-> mb,
                            bins |-> BinsRead(c.fn, mb, ds, model)]
                /\ trace' = Append(trace, Call("likelihood", k))
                /\ model' = AfterComponent(model, c.fn, out, ds)
                /\ IF out.kind = "value"
                   THEN /\ result' = <<out.val>>
                        /\ pc' = "returned"
                        /\ UNCHANGED exc
                   ELSE /\ exc' = out.exc
                        /\ pc' = "raised"
                        /\ UNCHANGED result
    /\ UNCHANGED <<entry, theta_free, fixed, theta, probs>>
    /\ UNCHANGED <<dispatchVars, call>>

\* line 588 (and 617): every component is evaluated, return the sum and the values
Return ==
    /\ pc = "components"
    /\ Len(probs) = Len(comps)
    /\ result' = ComputedReturn(entry, probs)
    /\ pc' = "returned"
    /\ UNCHANGED <<entry, theta_free, fixed, theta, model, probs, exc, trace>>
    /\ UNCHANGED <<dispatchVars, binq, call>>

\* the sampler takes the returned value and goes on to its next theta
NextTheta ==
    /\ pc = "returned"
    /\ pc' = "idle"
    /\ entry' = "none"
    /\ theta_free' = <<>>
    /\ fixed' = EmptyMap
    /\ theta' = NoTheta
    /\ model' = NoModel
    /\ probs' = <<>>
    /\ result' = <<>>
    /\ exc' = NoExc
    /\ trace' = <<>>
    /\ binq' = NoQuery
    /\ UNCHANGED <<dispatchVars, call>>

EvalIdle ==
    /\ pc = "idle"
    /\ entry = "none"
    /\ theta_free = <<>>
    /\ fixed = EmptyMap
    /\ theta = NoTheta
    /\ model = NoModel
    /\ probs = <<>>
    /\ result = <<>>
    /\ exc = NoExc
    /\ trace = <<>>
    /\ binq = NoQuery

Init ==
    /\ obs \in EvalObservations
    /\ comps = <<>>
    /\ dpc = "loaded"
    /\ kdeFits = 0
    /\ EvalIdle
    /\ call = NoCall

Next ==
    \/ DetermineComponents
    \/ PosteriorCall
    \/ LogLikelihoodCall
    \/ ModelCall
    \/ ModelInit
    \/ SolverConverges
    \/ SolverFails
    \/ EvalComponent
    \/ LikelihoodCall
    \/ Return
    \/ NextTheta

Spec == Init /\ [][Next]_vars

---------------------------------------------------------------------------
(* Properties of posterior and log_likelihood, checked under Spec.         *)

\* theta has all thirteen parameters and at least one is outside its range
OutsidePrior(th) ==
    /\ DOMAIN th = ParamNames
    /\ \E n \in ParamNames : ~(PriorLo(n) < th[n] /\ th[n] < PriorHi(n))

InsidePrior(th) ==
    /\ DOMAIN th = ParamNames
    /\ \A n \in ParamNames : PriorLo(n) < th[n] /\ th[n] < PriorHi(n)

Called(name) == \E i \in 1..Len(trace) : trace[i].call = name

AllNegInf(xs) == \A i \in 1..Len(xs) : xs[i] = NegInf

\* the profile solver was called for this theta and did not converge
NonConvergent == Called("limepy") /\ ~model.built

\* C1: for a theta with a parameter outside its prior range posterior returns
\* -inf as the total and -inf for every component, and neither the
\* mass-function service nor the profile solver nor a component has been
\* called in that evaluation.
C1_PriorBeforeModel ==
    (entry = "posterior" /\ OutsidePrior(theta.val)) =>
        /\ pc = "returned"
        /\ Len(result) = 1 + Len(comps)
        /\ AllNegInf(result)
        /\ trace = <<>>
        /\ model = NoModel

C1_Witness ==
    /\ entry = "posterior"
    /\ OutsidePrior(theta.val)
    /\ ~WithinPrior("d", theta.val["d"])
    /\ pc = "returned"
    /\ Len(comps) >= 2

\* C2: when the solver does not converge for a theta inside the prior bounds,
\* posterior returns -inf as the total followed by exactly len(components)
\* values, each -inf, and no component has been evaluated.
C2_NonConvergentReturn ==
    (entry = "posterior" /\ InsidePrior(theta.val) /\ NonConvergent) =>
        /\ pc = "returned"
        /\ Len(result) = 1 + Len(comps)
        /\ AllNegInf(result)
        /\ ~Called("likelihood")
        /\ probs = <<>>

C2_Witness ==
    /\ entry = "posterior"
    /\ InsidePrior(theta.val)
    /\ NonConvergent
    /\ pc = "returned"
    /\ Len(comps) >= 2

\* C3: for a theta inside the prior bounds the returned total is finite exactly
\* when the Model converged and every component value is finite, and is -inf
\* otherwise; when the Model converged the total is the sum of the component
\* values, which follow the total in the order of the components list.
C3_TotalFiniteOrNegInf ==
    (entry = "posterior" /\ InsidePrior(theta.val) /\ pc = "returned") =>
        /\ IsFinite(result[1]) <=>
              (model.built /\ \A k \in 1..Len(probs) : IsFinite(probs[k]))
        /\ ~IsFinite(result[1]) => result[1] = NegInf
        /\ model.built =>
              /\ result[1] = PySum(probs)
              /\ Tail(result) = probs
              /\ Len(probs) = Len(comps)

\* C4: the only conditions that leave posterior as an exception are
\* MissingParameter and MissingUncertainty; an evaluation whose Model has a
\* pulsar at or beyond its truncation radius ends in a returned value.
C4_NoExceptionEscapes ==
    (entry = "posterior" /\ pc = "raised") =>
        exc.cond \in {"MissingParameter", "MissingUncertainty"}

\* C5: building a Model from a theta that lacks a canonical name raises the
\* KeyError of MissingParameter before the mass-function service or the
\* solver is called, and no value is returned for it.
C5_MissingParameterFatal ==
    /\ (entry = "log_likelihood" /\ pc # "model"
            /\ ParamNames \ DOMAIN UnpackTheta(theta) # {}) =>
          /\ pc = "raised"
          /\ exc = Exc("KeyError", "MissingParameter")
          /\ trace = <<>>
          /\ result = <<>>
    /\ exc.cond = "MissingParameter" =>
          /\ pc = "raised"
          /\ trace = <<>>
          /\ result = <<>>

C5_Witness ==
    /\ entry = "log_likelihood"
    /\ theta.kind = "seq"
    /\ Len(theta.val) < Len(Params)
    /\ pc = "raised"
    /\ exc = Exc("KeyError", "MissingParameter")

---------------------------------------------------------------------------
(* posterior's merge of theta and fixed_initials as a function of its      *)
(* inputs: every subset of the parameters fixed, two full thetas.          *)

\* a theta whose thirteen values are all different
DistinctTheta == [n \in ParamNames |-> DEFAULT_INITIALS[n] + IndexOf(Params, n)]

MergeInputs ==
    {SplitTheta(th, F) : th \in {DEFAULT_INITIALS, DistinctTheta},
                         F \in SUBSET ParamNames}

InitMerge ==
    /\ obs = [datasets |-> <<>>, mdata |-> {}]
    /\ comps = <<>>
    /\ dpc = "dispatched"
    /\ kdeFits = 0
    /\ \E in \in MergeInputs : theta_free = in.tf /\ fixed = in.fx
    /\ pc = "idle"
    /\ entry = "posterior"
    /\ theta = NoTheta
    /\ model = NoModel
    /\ probs = <<>>
    /\ result = <<>>
    /\ exc = NoExc
    /\ trace = <<>>
    /\ binq = NoQuery
    /\ call = NoCall

\* lines 594-599 of posterior
Merge ==
    /\ pc = "idle"
    /\ theta' = [kind |-> "dict", val |-> MergeTheta(theta_free, fixed)]
    /\ pc' = "merged"
    /\ UNCHANGED <<entry, theta_free, fixed, model, probs, result, exc, trace, binq>>
    /\ UNCHANGED <<dispatchVars, call>>

NextMerge == Merge

SpecMerge == InitMerge /\ [][NextMerge]_vars

\* C6: after the merge theta has the thirteen canonical names; the k-th
\* value of theta_free is the value of the k-th name, in canonical order,
\* that is not fixed, and every fixed name has its fixed value.
C6_MergeByCanonicalOrder ==
    (pc = "merged" /\ Len(theta_free) = Len(Params) - Cardinality(DOMAIN fixed)) =>
        /\ DOMAIN theta.val = ParamNames
        /\ \A k \in 1..Len(theta_free) :
              theta.val[FreeNames(DOMAIN fixed)[k]] = theta_free[k]
        /\ \A n \in DOMAIN fixed : theta.val[n] = fixed[n]

C6_Witness ==
    /\ pc = "merged"
    /\ DOMAIN fixed = {"M", "a2", "d"}
    /\ Len(theta_free) = 10
    /\ theta.val = DistinctTheta

---------------------------------------------------------------------------
(* Mass bins of a Model and the bin a likelihood function uses, under Spec *)

\* the dataset of the last direct call
QueryDataset == ObsGet(obs, binq.key)

\* the rule of mass-bin resolution for the last direct call: an index i
\* satisfies it when it is the explicit argument, else the first index whose
\* mj entry equals the dataset's m, else nms - 1 (-1 for the pulsar component)
BinRule(i) ==
    IF binq.mass_bin # <<>> THEN i = binq.mass_bin[1]
    ELSE IF QueryDataset.m # <<>>
         THEN /\ i \in 0..(Len(model.mj) - 1)
              /\ model.mj[i + 1] = QueryDataset.m[1]
              /\ \A j \in 0..(i - 1) : model.mj[j + 1] # QueryDataset.m[1]
    ELSE IF binq.fn = "likelihood_pulsar" THEN i = -1
    ELSE i = model.nms - 1

\* C7 as stated: in every likelihood component the bin used is the one the
\* rule gives.
C7_Original ==
    binq # NoQuery => \E i \in binq.bins : binq.bins = {i} /\ BinRule(i)

\* C7: in every likelihood component except likelihood_mass_func the bin
\* used is the explicit mass_bin when given, else the first index of model.mj
\* whose entry equals the dataset's m, else nms - 1 (-1 for the pulsar
\* component); likelihood_mass_func takes no mass_bin and uses every stellar
\* bin 0..nms-1.
C7_MassBinResolution ==
    binq # NoQuery =>
        IF binq.fn = "likelihood_mass_func"
        THEN binq.bins = 0..(model.nms - 1) /\ binq.mass_bin = <<>>
        ELSE \E i \in binq.bins : binq.bins = {i} /\ BinRule(i)

\* the three branches of the rule, each taken by some component
C7_Witness ==
    /\ binq.fn = "likelihood_LOS"
    /\ binq.mass_bin = <<>>
    /\ QueryDataset.m = <<>>
    /\ model.nms = 2
    /\ Len(model.mj) = 4
    /\ binq.bins = {1}

\* the tracer masses of the datasets, in dataset order
TracerMasses ==
    Concat([i \in 1..Len(obs.datasets) |-> obs.datasets[i].m])

BinsLaidOut == pc \in {"solver", "built", "components"} \/ model.built

\* C8 as stated: the bins from index nms on are exactly the tracer bins.
C8_Original ==
    BinsLaidOut =>
        SubSeq(model.mj, model.nms + 1, Len(model.mj)) = TracerMasses

\* the stellar and the remnant bins that passed the cutoff, two and one in
\* the evolved mass function
StellarBins == UNION {Range(o.ms) : o \in EvalMfOutputs}
RemnantBins == UNION {Range(o.mr) : o \in EvalMfOutputs}

\* C8: indices 0..nms-1 of mj are the stellar bins; they are followed by
\* the remnant bins that passed the cutoff, and the last bins are exactly
\* the tracer bins, one per dataset that has an m, in dataset order.
C8_BinLayout ==
    BinsLaidOut =>
        LET n  == Len(model.mj)
            nt == Len(TracerMasses)
        IN /\ model.nms <= n - nt
           /\ \A i \in 1..model.nms : model.mj[i] \in StellarBins
           /\ \A i \in (model.nms + 1)..(n - nt) : model.mj[i] \in RemnantBins
           /\ SubSeq(model.mj, n - nt + 1, n) = TracerMasses
           /\ Len(model.Mj) = n
           /\ \A i \in (n - nt + 1)..n : model.Mj[i] = TracerMass

C8_Witness ==
    /\ model.built
    /\ model.nms = 2
    /\ Len(model.mj) = 5
    /\ Len(TracerMasses) = 2

---------------------------------------------------------------------------
(* determine_components as a function of the Observations: keys of one or  *)
(* two words, every subset of the four proper-motion variables in the      *)
(* datasets named proper_motion, the pulsar metadata present or not.       *)

DispatchKeys ==
    { <<"pulsar">>, <<"velocity_dispersion">>, <<"number_density">>,
      <<"mass_function">>, <<"other">>,
      <<"proper_motion", "high_mass">>,
      <<"pulsar", "proper_motion">>,
      <<"proper_motion", "mass_function">> }

DispatchDatasets ==
    {MkDataset(k, {"r"} \cup vs, NoM, <<1>>, FALSE) :
        k \in {x \in DispatchKeys : fnmatch(x, "proper_motion")},
        vs \in SUBSET PMVars}
    \cup {MkDataset(k, {"r"}, NoM, <<1>>, FALSE) :
        k \in {x \in DispatchKeys : ~fnmatch(x, "proper_motion")}}

DispatchObservations ==
    {[datasets |-> dss, mdata |-> md] :
        dss \in DistinctKeySeqs(DispatchDatasets, MaxDispatchDatasets),
        md \in {PulsarMdata, {"b", "l"}}}

InitDispatch ==
    /\ obs \in DispatchObservations
    /\ comps = <<>>
    /\ dpc = "loaded"
    /\ kdeFits = 0
    /\ EvalIdle
    /\ call = NoCall

NextDispatch == DetermineComponents

SpecDispatch == InitDispatch /\ [][NextDispatch]_vars

Families == <<"pulsar", "velocity_dispersion", "number_density",
              "proper_motion", "mass_function">>

FamilyFn(X) ==
    CASE X = "pulsar" -> "likelihood_pulsar"
      [] X = "velocity_dispersion" -> "likelihood_LOS"
      [] X = "number_density" -> "likelihood_number_density"
      [] X = "mass_function" -> "likelihood_mass_func"

PMFn(v) ==
    CASE v = "PM_tot" -> "likelihood_pm_tot"
      [] v = "PM_ratio" -> "likelihood_pm_ratio"
      [] v = "PM_R" -> "likelihood_pm_R"
      [] v = "PM_T" -> "likelihood_pm_T"

\* the entries of comps that name dataset i, in list order
EntriesOf(i) == SelectSeq(comps, LAMBDA c : c.key = obs.datasets[i].key)

DatasetIndex(key) == CHOOSE i \in 1..Len(obs.datasets) : obs.datasets[i].key = key

\* every entry names a dataset and the entries follow the datasets' order
InDatasetOrder ==
    /\ \A a \in 1..Len(comps) :
          \E i \in 1..Len(obs.datasets) : obs.datasets[i].key = comps[a].key
    /\ \A a, b \in 1..Len(comps) :
          a < b => DatasetIndex(comps[a].key) <= DatasetIndex(comps[b].key)

\* the first pattern of the chain that the key matches, "none" if there is none
FirstFamily(key) ==
    IF \A k \in 1..Len(Families) : ~fnmatch(key, Families[k]) THEN "none"
    ELSE Families[CHOOSE k \in 1..Len(Families) :
                     /\ fnmatch(key, Families[k])
                     /\ \A j \in 1..(k - 1) : ~fnmatch(key, Families[j])]

\* C9 as stated: a dataset whose key matches the pulsar, velocity_dispersion,
\* number_density or mass_function pattern contributes exactly one entry with
\* that family's function.
C9_Original ==
    dpc = "dispatched" =>
        /\ InDatasetOrder
        /\ \A i \in 1..Len(obs.datasets) :
              /\ \A X \in (Range(Families) \ {"proper_motion"}) :
                    fnmatch(obs.datasets[i].key, X) =>
                        /\ Len(EntriesOf(i)) = 1
                        /\ EntriesOf(i)[1].fn = FamilyFn(X)
              /\ (\A X \in Range(Families) : ~fnmatch(obs.datasets[i].key, X))
                    => EntriesOf(i) = <<>>

\* C9: the entries of the returned list follow the dataset iteration order;
\* a dataset whose key's first matching pattern, in the order pulsar,
\* velocity_dispersion, number_density, proper_motion, mass_function, is one
\* of pulsar, velocity_dispersion, number_density, mass_function contributes
\* exactly one entry, with that family's function; a dataset whose key
\* matches no pattern contributes none; a number_density dataset and a
\* velocity_dispersion dataset together give exactly two entries.
C9_DispatchOrder ==
    dpc = "dispatched" =>
        /\ InDatasetOrder
        /\ \A i \in 1..Len(obs.datasets) :
              LET X == FirstFamily(obs.datasets[i].key)
              IN /\ X \in (Range(Families) \ {"proper_motion"}) =>
                       /\ Len(EntriesOf(i)) = 1
                       /\ EntriesOf(i)[1].fn = FamilyFn(X)
                 /\ X = "none" => EntriesOf(i) = <<>>
        /\ ({obs.datasets[i].key : i \in 1..Len(obs.datasets)}
                = {<<"number_density">>, <<"velocity_dispersion">>}
            => Len(comps) = 2)

C9_Witness ==
    /\ dpc = "dispatched"
    /\ Len(obs.datasets) = 2
    /\ obs.datasets[1].key = <<"mass_function">>
    /\ obs.datasets[2].key = <<"pulsar", "proper_motion">>
    /\ Len(comps) = 2

\* the sub-likelihood of variable v is in the list for dataset i
HasPMEntry(i, v) ==
    \E a \in 1..Len(EntriesOf(i)) : EntriesOf(i)[a].fn = PMFn(v)

\* C10 as stated: for every dataset whose key matches proper_motion each of
\* the four sub-likelihoods is included exactly when its variable is present.
C10_Original ==
    dpc = "dispatched" =>
        \A i \in 1..Len(obs.datasets) :
            fnmatch(obs.datasets[i].key, "proper_motion") =>
                \A v \in PMVars :
                    HasPMEntry(i, v) <=> DatasetContains(obs.datasets[i], v)

\* C10: for a dataset whose key matches proper_motion and none of pulsar,
\* velocity_dispersion, number_density, each of the four sub-likelihoods is
\* in the list exactly when its variable is present in the dataset,
\* independently of the others, at most once, and nothing else is contributed.
C10_ProperMotionEntries ==
    dpc = "dispatched" =>
        \A i \in 1..Len(obs.datasets) :
            FirstFamily(obs.datasets[i].key) = "proper_motion" =>
                /\ \A v \in PMVars :
                      HasPMEntry(i, v) <=> DatasetContains(obs.datasets[i], v)
                /\ Len(EntriesOf(i)) = Cardinality(PMVars \cap obs.datasets[i].vars)
                /\ \A a \in 1..Len(EntriesOf(i)) :
                      \E v \in PMVars : EntriesOf(i)[a].fn = PMFn(v)

C10_Witness ==
    /\ dpc = "dispatched"
    /\ \E i \in 1..Len(obs.datasets) :
          /\ FirstFamily(obs.datasets[i].key) = "proper_motion"
          /\ PMVars \cap obs.datasets[i].vars = {"PM_ratio", "PM_T"}
          /\ Len(EntriesOf(i)) = 2

---------------------------------------------------------------------------
(* The field-pulsar KDE (pulsar_Pdot_KDE), counted by kdeFits.             *)

HoldsPulsarDataset ==
    \E i \in 1..Len(obs.datasets) : fnmatch(obs.datasets[i].key, "pulsar")

\* C11: one call of determine_components fits the field-pulsar KDE exactly
\* once when the Observations holds pulsar datasets, however many, and not
\* at all otherwise; nothing after it fits the KDE again.
C11_KDEFittedOnce ==
    dpc = "dispatched" => kdeFits = (IF HoldsPulsarDataset THEN 1 ELSE 0)

---------------------------------------------------------------------------
(* Dataset.build_err (data.py) as a function of the dataset's variables    *)
(* and the model curve.  A variable a dataset does not have is <<>>, one   *)
(* it has is <<values>>.                                                   *)

\* sample points of a dataset in the build_err specification
MaxPoints == 2

Returned(v) == [kind |-> "value", val |-> v]
Raised(e) == [kind |-> "raise", exc |-> e]

\* np.interp(x, xp, fp): linear between the grid points, the end values
\* outside the grid
Interp(x, xp, fp) ==
    IF x <= xp[1] THEN fp[1]
    ELSE IF x >= xp[Len(xp)] THEN fp[Len(fp)]
    ELSE LET k == CHOOSE j \in 1..(Len(xp) - 1) : xp[j] <= x /\ x < xp[j + 1]
         IN fp[k] + ((fp[k + 1] - fp[k]) * (x - xp[k])) \div (xp[k + 1] - xp[k])

\* the mask taken with >= where the code has >
build_err_MaskGe(d, model_r, model_val) ==
    IF d.sym # <<>> THEN Returned(d.sym[1])
    ELSE IF d.up = <<>> \/ d.down = <<>>
         THEN Raised(Exc("ValueError", "MissingUncertainty"))
    ELSE IF d.X = <<>> \/ d.r = <<>>
         THEN Raised(Exc("KeyError", "MissingVariable"))
    ELSE Returned([i \in 1..Len(d.X[1]) |->
                     IF Interp(d.r[1][i], model_r, model_val) >= d.X[1][i]
                     THEN d.up[1][i] ELSE d.down[1][i]])

\* Dataset.build_err(varname, model_r, model_val), data.py lines 147-178;
\* d.sym is the variable ΔX, d.up and d.down are ΔX,up and ΔX,down, d.X is X
build_err(d, model_r, model_val) ==
    IF d.sym # <<>> THEN Returned(d.sym[1])
    ELSE IF d.up = <<>> \/ d.down = <<>>
         THEN Raised(Exc("ValueError", "MissingUncertainty"))
    ELSE IF d.X = <<>> \/ d.r = <<>>
         THEN Raised(Exc("KeyError", "MissingVariable"))
    ELSE Returned([i \in 1..Len(d.X[1]) |->
                     IF Interp(d.r[1][i], model_r, model_val) > d.X[1][i]
                     THEN d.up[1][i] ELSE d.down[1][i]])

Opt(present, v) == IF present THEN <<v>> ELSE <<>>

\* the model curve: radii and the values of the profile at them
ModelR == <<0, 2, 4>>
ModelCurves == {<<0, 4, 8>>, <<6, 2, 2>>, <<4, 4, 4>>}

BuildErrInputs ==
    {[d |-> [sym  |-> Opt(hs, [i \in 1..n |-> 30 + i]),
             up   |-> Opt(hu, [i \in 1..n |-> 10 + i]),
             down |-> Opt(hd, [i \in 1..n |-> 20 + i]),
             X    |-> <<X>>,
             r    |-> <<r>>],
      model_r |-> ModelR,
      model_val |-> mv] :
        hs \in BOOLEAN, hu \in BOOLEAN, hd \in BOOLEAN,
        n \in {MaxPoints},
        X \in [1..MaxPoints -> {2, 4}],
        r \in [1..MaxPoints -> {0, 1, 3, 5}],
        mv \in ModelCurves}

\* nothing of the dispatch and evaluation state is in use
ProgIdle ==
    /\ obs = [datasets |-> <<>>, mdata |-> {}]
    /\ comps = <<>>
    /\ dpc = "loaded"
    /\ kdeFits = 0
    /\ EvalIdle

InitErr ==
    /\ ProgIdle
    /\ \E in \in BuildErrInputs : call = [op |-> "build_err", in |-> in, out |-> NotCalled]

BuildErrCall ==
    /\ call.op = "build_err"
    /\ call.out.kind = "not called"
    /\ call' = [call EXCEPT !.out = build_err(call.in.d, call.in.model_r,
                                              call.in.model_val)]
    /\ UNCHANGED progVars

NextErr == BuildErrCall

SpecErr == InitErr /\ [][NextErr]_vars

\* C12: build_err returns the symmetric error unchanged when it is present;
\* otherwise, with both the up and the down error present, the error at
\* point i is the up error where the interpolated model value is strictly
\* greater than the observed value, and the down error elsewhere (equality
\* included).
C12_BuildErrSelection ==
    (call.op = "build_err" /\ call.out.kind # "not called") =>
        LET d == call.in.d
            at(i) == Interp(d.r[1][i], call.in.model_r, call.in.model_val)
        IN /\ d.sym # <<>> => call.out = Returned(d.sym[1])
           /\ (d.sym = <<>> /\ d.up # <<>> /\ d.down # <<>>) =>
                 /\ call.out.kind = "value"
                 /\ Len(call.out.val) = Len(d.X[1])
                 /\ \A i \in 1..Len(d.X[1]) :
                       /\ at(i) > d.X[1][i] => call.out.val[i] = d.up[1][i]
                       /\ at(i) <= d.X[1][i] => call.out.val[i] = d.down[1][i]

\* an asymmetric error with one point above and one point equal to the model
C12_Witness ==
    /\ call.op = "build_err"
    /\ call.out.kind = "value"
    /\ call.in.d.sym = <<>>
    /\ Interp(call.in.d.r[1][1], call.in.model_r, call.in.model_val) > call.in.d.X[1][1]
    /\ Interp(call.in.d.r[1][2], call.in.model_r, call.in.model_val) = call.in.d.X[1][2]
    /\ call.out.val = <<11, 22>>

---------------------------------------------------------------------------
(* Data ingestion (bin/file_creator.py): ClusterFile._test_dataset, test   *)
(* and save for one live dataset, and the evaluation of the dataset once   *)
(* written.  A live dataset is [key, vars, unitsOk]: its name, the names   *)
(* of its variables, whether their unit strings parse.                     *)

\* _check_contains, lines 169-174: True, or None (no return in the else)
CheckContains(ds, k) == IF k \in ds.vars THEN "True" ELSE "None"

\* _check_contains_choice, lines 176-183: `key in dataset` on a Dataset that
\* defines neither __contains__ nor __iter__ nor __getitem__
CheckContainsChoice(ds, ks) == "TypeError"

\* either half of the pair accepted on its own
CheckForError_EitherHalf(ds, k) ==
    IF (("D_" \o k) \o "_up") \in ds.vars \/ (("D_" \o k) \o "_down") \in ds.vars
    THEN "True"
    ELSE IF ("D_" \o k) \in ds.vars THEN "True"
    ELSE "False"

\* _check_for_error, lines 185-195
CheckForError(ds, k) ==
    IF (("D_" \o k) \o "_up") \in ds.vars /\ (("D_" \o k) \o "_down") \in ds.vars
    THEN "True"
    ELSE IF ("D_" \o k) \in ds.vars THEN "True"
    ELSE "False"

\* _check_for_units, lines 197-216: dataset.variables[key] is outside the try
CheckForUnits(ds, k) ==
    IF k \notin ds.vars THEN "KeyError"
    ELSE IF ds.unitsOk THEN "True" ELSE "False"

\* the checks _test_dataset makes for a key, in order, lines 233-327
DatasetChecks(key, ds) ==
    LET br == Branch(key)
        measured(X) == <<CheckContains(ds, "r"), CheckForUnits(ds, "r"),
                         CheckContains(ds, X), CheckForError(ds, X),
                         CheckForUnits(ds, X)>>
    IN CASE br = "pulsar" ->
              <<CheckContains(ds, "r"), CheckForUnits(ds, "r"),
                CheckContainsChoice(ds, {"P", "Pb"})>>
         [] br = "velocity_dispersion" -> measured("sigma")
         [] br = "number_density" -> measured("Sigma")
         [] br = "proper_motion" ->
              <<CheckContains(ds, "r"), CheckForUnits(ds, "r"),
                CheckContainsChoice(ds, PMVars)>>
         [] br = "mass_function" ->
              <<CheckContains(ds, "N"), CheckContains(ds, "D_N"),
                CheckContains(ds, "r1"), CheckForUnits(ds, "r1"),
                CheckContains(ds, "r2"), CheckForUnits(ds, "r2"),
                CheckContains(ds, "m1"), CheckForUnits(ds, "m1"),
                CheckContains(ds, "m2"), CheckForUnits(ds, "m2"),
                \* _check_for_field: variables['fields'].attrs on a dict
                IF "fields" \in ds.vars THEN "AttributeError" ELSE "KeyError">>
         [] OTHER -> <<>>

\* valid = True; valid &= check, for each check in order: a check that raises
\* ends the test, `valid &= None` is a TypeError
RECURSIVE FoldChecks(_, _, _)
FoldChecks(cs, i, valid) ==
    IF i > Len(cs) THEN (IF valid THEN "True" ELSE "False")
    ELSE IF cs[i] = "None" THEN "TypeError"
    ELSE IF cs[i] \notin {"True", "False"} THEN cs[i]
    ELSE FoldChecks(cs, i + 1, valid /\ cs[i] = "True")

\* _test_dataset(key, dataset): "True", "False" or the exception it raises
TestDataset(key, ds) == FoldChecks(DatasetChecks(key, ds), 1, TRUE)

\* test(), lines 329-347: runs _test_dataset on the live dataset and has no
\* return statement: None, or the exception
TestLive(ds) ==
    IF TestDataset(ds.key, ds) \in {"True", "False"} THEN "None"
    ELSE TestDataset(ds.key, ds)

\* save(force), lines 349-368: `valid = self.test()`; `if not valid` warns and
\* returns unless force is set; then the live data is written
SaveOutcome(ds, force) ==
    LET valid == TestLive(ds)
    IN IF valid # "None" THEN [kind |-> "raise", exc |-> valid]
       ELSE IF force THEN [kind |-> "written", exc |-> "none"]
       ELSE [kind |-> "abandoned", exc |-> "none"]

\* the build_err outcomes of the Gaussian components that determine_components
\* gives the dataset once it is read back as a fitter Dataset
WrittenErrOutcomes(ds) ==
    LET br == Branch(ds.key)
    IN CASE br = "velocity_dispersion" -> {BuildErr(ds, "sigma")}
         [] br = "proper_motion" ->
              {BuildErr(ds, ObservedVar(PMEntries(ds)[i].fn)) :
                  i \in 1..Len(PMEntries(ds))}
         [] OTHER -> {}

ErrVars(X) == {"D_" \o X, ("D_" \o X) \o "_up", ("D_" \o X) \o "_down"}

LiveDatasets ==
    UNION {
      {[key |-> kx[1], vars |-> rs \cup xs \cup es, unitsOk |-> uo] :
          rs \in SUBSET {"r"},
          xs \in SUBSET {kx[2]},
          es \in SUBSET ErrVars(kx[2]),
          uo \in BOOLEAN} :
      kx \in { <<<<"velocity_dispersion">>, "sigma">>,
               <<<<"number_density">>, "Sigma">>,
               <<<<"proper_motion", "high_mass">>, "PM_tot">>,
               <<<<"other">>, "sigma">> } }

InitIngest ==
    /\ ProgIdle
    /\ \E ds \in LiveDatasets, force \in BOOLEAN :
         call = [op |-> "save", in |-> [ds |-> ds, force |-> force],
                 out |-> NotCalled, eval |-> {}, evaluated |-> FALSE]

\* add_dataset(ds); save(force)
Save ==
    /\ call.op = "save"
    /\ call.out.kind = "not called"
    /\ call' = [call EXCEPT !.out = SaveOutcome(call.in.ds, call.in.force)]
    /\ UNCHANGED progVars

\* the written file is loaded and its components are evaluated
EvaluateWritten ==
    /\ call.op = "save"
    /\ call.out.kind = "written"
    /\ ~call.evaluated
    /\ call' = [call EXCEPT !.eval = WrittenErrOutcomes(call.in.ds),
                            !.evaluated = TRUE]
    /\ UNCHANGED progVars

NextIngest == Save \/ EvaluateWritten

SpecIngest == InitIngest /\ [][NextIngest]_vars

\* the observed variable of a Gaussian component of the dataset is present
\* with neither a symmetric error nor a complete up/down pair
LacksUncertainty(ds) ==
    \E X \in {"sigma", "PM_tot"} :
        /\ X \in ds.vars
        /\ (X = "sigma") <=> (Branch(ds.key) = "velocity_dispersion")
        /\ (X = "PM_tot") <=> (Branch(ds.key) = "proper_motion")
        /\ ("D_" \o X) \notin ds.vars
        /\ ~({("D_" \o X) \o "_up", ("D_" \o X) \o "_down"} \subseteq ds.vars)

\* C13: a dataset whose variable has neither a symmetric error nor a
\* complete up/down pair does not pass _test_dataset, and a written dataset
\* that passed _test_dataset never raises the ValueError of build_err when
\* its components are evaluated.
C13_ValidatedHasUncertainty ==
    call.op = "save" =>
        /\ LacksUncertainty(call.in.ds) =>
              TestDataset(call.in.ds.key, call.in.ds) # "True"
        /\ (call.evaluated /\ TestDataset(call.in.ds.key, call.in.ds) = "True") =>
              "ValueError" \notin call.eval

C13_Witness ==
    /\ call.op = "save"
    /\ call.evaluated
    /\ TestDataset(call.in.ds.key, call.in.ds) = "True"
    /\ call.in.ds.key = <<"velocity_dispersion">>
    /\ "D_sigma" \notin call.in.ds.vars
    /\ call.eval = {"asym"}

---------------------------------------------------------------------------
\* cluster_component (probabilities/pulsars.py): the line-of-sight
\* acceleration distribution of one pulsar.
\*
\* The splines of lines 40-153 are not computed here: what they produce, the
\* half distribution Paz_dist on the grid az_domain = linspace(0, azmax, n),
\* is an input drawn from a bounded set.  Densities are integers counting
\* quarters of the unit density, the grid step is one unit of acceleration,
\* and areas are counted in eighths, so that a trapezoid 0.5 * (P_a + P_b)
\* of two densities is the integer P_a + P_b.

\* number of points of the half distribution (6 * nr in the source)
MaxHalf == 3

\* an area in eighths
Eighths(x) == 8 * x

Abs(x) == IF x < 0 THEN -x ELSE x

\* np.concatenate((np.flip(a[1:]), a))
Mirror(a) == Reverse(Tail(a)) \o a

\* a[i] of a 0-based array held as a sequence
At(a, i) == a[i + 1]

\* the loop of lines 169-193 from step ind on; the else branch of the loop
\* (range exhausted) leaves ind at its last value
RECURSIVE NormLoop(_, _, _, _, _)
NormLoop(P, mid, eps, ind, norm) ==
    LET n2 == norm + (At(P, mid + ind) + At(P, mid + ind + 1))
                   + (At(P, mid - ind) + At(P, mid - ind - 1))
    IN
    IF Abs(Eighths(2) - n2) <= eps
    THEN [ind |-> ind, norm |-> n2, stop |-> "converged"]
    ELSE IF n2 > Eighths(2)
    THEN [ind |-> ind - 1, norm |-> n2, stop |-> "overshoot"]
    ELSE IF ind + 1 < mid
    THEN NormLoop(P, mid, eps, ind + 1, n2)
    ELSE [ind |-> ind, norm |-> n2, stop |-> "exhausted"]

\* Paz_dist[:mid - ind] = 0; Paz_dist[mid + ind + 1:] = 0
ZeroTails(P, mid, ind) ==
    [i \in 1..Len(P) |->
        IF (i - 1) < mid - ind \/ (i - 1) >= mid + ind + 1 THEN 0 ELSE P[i]]

\* lines 155-239: mirror, normalization loop, zeroing of the tails, and the
\* domain divided by c (held as multiples of the grid step over c)
Normalize(half, eps) ==
    LET P    == Mirror(half)
        mid  == Len(P) \div 2
        loop == NormLoop(P, mid, eps, 0, 0)
    IN [PdotP_domain |-> [i \in 1..Len(P) |-> (i - 1) - mid],
        Paz_dist |-> ZeroTails(P, mid, loop.ind),
        computed |-> P,
        mid |-> mid, ind |-> loop.ind, norm |-> loop.norm, stop |-> loop.stop]

\* cluster_component(model, R, mass_bin, eps=eps): the bound test of lines
\* 35-38 comes first; `profile` tells whether lines 40-239 were run
cluster_component(in) ==
    IF OutOfBoundsRadius(in.model, in.R)
    THEN [out |-> Raised("ValueError"), profile |-> FALSE]
    ELSE [out |-> Returned(Normalize(in.half, in.eps)), profile |-> TRUE]

\* twice-halved trapezoid area of a sampled density over its whole domain,
\* in eighths
Area(P) ==
    LET RECURSIVE f(_)
        f(i) == IF i >= Len(P) THEN 0 ELSE (P[i] + P[i + 1]) + f(i + 1)
    IN f(1)

HalfDensities == {0, 1, 2, 3, 4, 8}

RECURSIVE HalfDists(_)
HalfDists(n) ==
    IF n = 0 THEN {<<>>}
    ELSE {Append(h, v) : h \in HalfDists(n - 1), v \in HalfDensities}

\* rt = 100 or 200; R below, just below (0.99 rt), at and beyond the bound
ClusterInputs ==
    [model : {[rt |-> 100], [rt |-> 200]},
     R     : {0, 99, 100, 101, 198, 200, 250},
     half  : HalfDists(MaxHalf),
     eps   : {0, 2}]

InitCluster ==
    /\ ProgIdle
    /\ \E in \in ClusterInputs :
         call = [op |-> "cluster_component", in |-> in, out |-> NotCalled,
                 profile |-> FALSE]

ClusterComponentCall ==
    /\ call.op = "cluster_component"
    /\ call.out.kind = "not called"
    /\ call' = [call EXCEPT !.out = cluster_component(call.in).out,
                            !.profile = cluster_component(call.in).profile]
    /\ UNCHANGED progVars

NextCluster == ClusterComponentCall

SpecCluster == InitCluster /\ [][NextCluster]_vars

ClusterCalled == call.op = "cluster_component" /\ call.out.kind # "not called"

\* C14: cluster_component fails with the ValueError of the bound test for
\* every R = rt and every R > rt, without having run any profile
\* computation, and does not fail for any R < rt (0.99 rt included).
C14_OutOfBoundsRadius ==
    ClusterCalled =>
        /\ call.in.R >= call.in.model.rt =>
              call.out = Raised("ValueError") /\ ~call.profile
        /\ call.in.R < call.in.model.rt =>
              call.out.kind = "value" /\ call.profile

C14_Witness ==
    /\ ClusterCalled
    /\ call.in.R = call.in.model.rt
    /\ call.out = Raised("ValueError")

\* C15: when the normalization loop converges, the returned density
\* integrates to 1.0 over the whole returned domain, within eps.
C15_IntegratesToOne ==
    (ClusterCalled /\ call.out.kind = "value") =>
        (call.out.val.stop = "converged" =>
            Abs(Area(call.out.val.Paz_dist) - Eighths(1)) <= call.in.eps)

---------------------------------------------------------------------------
\* likelihood_number_density (likelihoods.py lines 292-340) in exact
\* arithmetic: the floats are rationals [n, d] in lowest terms with d > 0,
\* and d = 0 stands for a value that is not finite (0/0, x/0).

RECURSIVE GCD(_, _)
GCD(a, b) == IF b = 0 THEN a ELSE GCD(b, a % b)

Q(n, d) ==
    IF d = 0 THEN [n |-> 0, d |-> 0]
    ELSE LET g == GCD(Abs(n), Abs(d))
             s == IF d < 0 THEN -1 ELSE 1
         IN [n |-> (s * n) \div g, d |-> (s * d) \div g]

QInt(k) == Q(k, 1)
\* the operations cancel the common factors before they multiply
QAdd(a, b) ==
    IF a.d = 0 \/ b.d = 0 THEN Q(0, 0)
    ELSE LET g == GCD(a.d, b.d)
         IN Q(a.n * (b.d \div g) + b.n * (a.d \div g), (a.d \div g) * b.d)
QNeg(a) == [n |-> -a.n, d |-> a.d]
QSub(a, b) == QAdd(a, QNeg(b))
QMul(a, b) ==
    IF a.d = 0 \/ b.d = 0 THEN Q(0, 0)
    ELSE LET x == Q(a.n, b.d)
             y == Q(b.n, a.d)
         IN Q(x.n * y.n, x.d * y.d)
QDiv(a, b) == IF b.n = 0 THEN Q(0, 0) ELSE QMul(a, Q(b.d, b.n))
QGt(a, b)  == a.d # 0 /\ b.d # 0 /\ a.n * b.d > b.n * a.d

\* np.sum of an array of rationals
QSum(a) ==
    LET RECURSIVE f(_)
        f(i) == IF i > Len(a) THEN QInt(0) ELSE QAdd(a[i], f(i + 1))
    IN f(1)

\* np.interp(x, xp, fp) for a rational curve fp on an integer grid xp
InterpQ(x, xp, fp) ==
    IF x <= xp[1] THEN fp[1]
    ELSE IF x >= xp[Len(xp)] THEN fp[Len(fp)]
    ELSE LET i == CHOOSE j \in 1..(Len(xp) - 1) : xp[j] <= x /\ x < xp[j + 1]
         IN QAdd(fp[i], QMul(QSub(fp[i + 1], fp[i]),
                             Q(x - xp[i], xp[i + 1] - xp[i])))

\* a[valid]: boolean indexing copies the selected entries
Select(a, valid) ==
    LET RECURSIVE f(_)
        f(i) == IF i > Len(a) THEN <<>>
                ELSE (IF valid[i] THEN <<a[i]>> ELSE <<>>) \o f(i + 1)
    IN f(1)

\* the amplitude left at 1: the model curve is compared as it is
KFactor_One(obs_S, interpolated) == QInt(1)

\* lines 327-328: K = sum(obs * model / obs^2) / sum(model^2 / obs^2)
KFactor(obs_S, interpolated) ==
    QDiv(QSum([i \in 1..Len(obs_S) |->
                 QDiv(QMul(obs_S[i], interpolated[i]), QMul(obs_S[i], obs_S[i]))]),
         QSum([i \in 1..Len(obs_S) |->
                 QDiv(QMul(interpolated[i], interpolated[i]),
                      QMul(obs_S[i], obs_S[i]))]))

\* likelihood_number_density(model, ndensity, mass_bin=mass_bin), with
\* r_arcmin = pc2arcsec(model.r, model.d) / 60.  The value is
\* -0.5 * (chi2 + sum of log(v) for v in logs).
likelihood_number_density(mdl, ndensity, mass_bin) ==
    LET valid   == [i \in 1..Len(ndensity.Sigma) |->
                       QGt(ndensity.Sigma[i], Q(1, 10))]
        obs_S   == Select(ndensity.Sigma, valid)
        obs_err == Select(ndensity.D_Sigma, valid)
        r       == Select(ndensity.r, valid)
        curve   == [k \in 1..Len(mdl.r_arcmin) |->
                       QDiv(mdl.Sigmaj[mass_bin][k], mdl.mj[mass_bin])]
        interp  == [i \in 1..Len(r) |-> InterpQ(r[i], mdl.r_arcmin, curve)]
        K       == KFactor(obs_S, interp)
        scaled  == [i \in 1..Len(r) |-> QMul(interp[i], K)]
        yerr2   == [i \in 1..Len(r) |->
                       QAdd(QMul(obs_err[i], obs_err[i]), mdl.s2)]
        res     == [i \in 1..Len(r) |-> QSub(obs_S[i], scaled[i])]
    IN [K |-> K,
        obs_S |-> obs_S, obs_err |-> obs_err, unscaled |-> interp,
        interpolated |-> scaled,
        yerr2 |-> yerr2,
        chi2 |-> QSum([i \in 1..Len(r) |-> QDiv(QMul(res[i], res[i]), yerr2[i])]),
        logs |-> yerr2]

\* the model with its surface-density profiles multiplied by c
ScaleSigmaj(mdl, c) ==
    [mdl EXCEPT !.Sigmaj = [j \in 1..Len(@) |->
                               [k \in 1..Len(@[j]) |-> QMul(c, @[j][k])]]]

QSeq(s) == [i \in 1..Len(s) |-> QInt(s[i])]

\* observed densities 0.1 (cut off), 0.5, 1, 2; uncertainties 0.5, 1
NDSigmas == {Q(1, 10), Q(1, 2), QInt(1), QInt(2)}
NDErrors == {Q(1, 2), QInt(1)}

RECURSIVE SeqsOf(_, _)
SeqsOf(S, n) ==
    IF n = 0 THEN {<<>>} ELSE {Append(s, v) : s \in SeqsOf(S, n - 1), v \in S}

NumberDensities ==
    {[Sigma |-> S, D_Sigma |-> E, r |-> [i \in 1..MaxPoints |-> 2 * i - 1]] :
        S \in SeqsOf(NDSigmas, MaxPoints), E \in SeqsOf(NDErrors, MaxPoints)}

\* two mass bins on the grid r_arcmin; the profiles are positive inside the
\* cluster and vanish at its edge
NDModels ==
    {[r_arcmin |-> <<0, 2, 4, 6>>,
      Sigmaj   |-> <<QSeq(<<9, 5, 1, 0>>), QSeq(S)>>,
      mj       |-> <<Q(1, 2), m>>,
      s2       |-> s2] :
        S \in {<<8, 4, 2, 0>>, <<6, 2, 1, 0>>, <<3, 3, 1, 0>>},
        m \in {QInt(1), QInt(2)},
        s2 \in {QInt(0), Q(1, 4)}}

NDScales == {Q(1, 2), QInt(2), QInt(3)}

InitND ==
    /\ ProgIdle
    /\ \E mdl \in NDModels, nd \in NumberDensities, c \in NDScales :
         call = [op |-> "likelihood_number_density",
                 in |-> [model |-> mdl, ndensity |-> nd, mass_bin |-> 2, c |-> c],
                 out |-> NotCalled, scaled |-> NotCalled]

NumberDensityCall ==
    /\ call.op = "likelihood_number_density"
    /\ call.out.kind = "not called"
    /\ call' = [call EXCEPT !.out =
                   Returned(likelihood_number_density(
                       call.in.model, call.in.ndensity, call.in.mass_bin))]
    /\ UNCHANGED progVars

\* the same call on the model whose Sigmaj is multiplied by c
NumberDensityScaledCall ==
    /\ call.op = "likelihood_number_density"
    /\ call.scaled.kind = "not called"
    /\ call' = [call EXCEPT !.scaled =
                   Returned(likelihood_number_density(
                       ScaleSigmaj(call.in.model, call.in.c),
                       call.in.ndensity, call.in.mass_bin))]
    /\ UNCHANGED progVars

NextND == NumberDensityCall \/ NumberDensityScaledCall

SpecND == InitND /\ [][NextND]_vars

\* the least-squares amplitude weighted by the observed uncertainties
KByUncertainty(obs_S, obs_err, interpolated) ==
    QDiv(QSum([i \in 1..Len(obs_S) |->
                 QDiv(QMul(obs_S[i], interpolated[i]),
                      QMul(obs_err[i], obs_err[i]))]),
         QSum([i \in 1..Len(obs_S) |->
                 QDiv(QMul(interpolated[i], interpolated[i]),
                      QMul(obs_err[i], obs_err[i]))]))

\* C16: the model curve is rescaled by
\* K = sum(obs * model / obs_err^2) / sum(model^2 / obs_err^2) over the
\* retained points, and compared with variance obs_err^2 + s2.
C16_KWeightedByUncertainty ==
    (call.op = "likelihood_number_density" /\ call.out.kind = "value") =>
        LET o == call.out.val
        IN /\ o.K = KByUncertainty(o.obs_S, o.obs_err, o.unscaled)
           /\ o.yerr2 = [i \in 1..Len(o.obs_err) |->
                            QAdd(QMul(o.obs_err[i], o.obs_err[i]),
                                 call.in.model.s2)]

---------------------------------------------------------------------------
\* The unit conversions and the likelihood components called, in any order,
\* on one constructed Model: what they do to model.d.

\* the in-place multiplications of one distance that are followed
MaxScalings == 4

\* the largest number of annuli of a mass-function dataset
MaxAnnuli == 2

LikelihoodFns ==
    {"likelihood_pulsar", "likelihood_LOS", "likelihood_number_density",
     "likelihood_mass_func", "likelihood_pm_tot", "likelihood_pm_ratio",
     "likelihood_pm_R", "likelihood_pm_T"}

\* a Model whose construction has finished, with distance 2, 5 or 8 kpc
InitUnits ==
    /\ ProgIdle
    /\ \E kpc \in {2000, 5000, 8000} :
         call = [op |-> "units",
                 model |-> [d |-> [kpc |-> kpc, e3 |-> 0]],
                 built |-> [d |-> [kpc |-> kpc, e3 |-> 0]],
                 last |-> NotCalled]

\* pc2arcsec(x, model.d), as2pc(x, model.d), kms2masyr(x, model.d) or
\* masyr2kms(x, model.d)
ConversionCall ==
    /\ call.op = "units"
    /\ \E conv \in {"pc2arcsec", "as2pc", "kms2masyr", "masyr2kms"}, x \in {1, 3} :
         LET c == Convert(conv, x, call.model.d)
         IN /\ c.d.e3 <= MaxScalings
            /\ call' = [call EXCEPT !.model.d = c.d,
                                    !.last = [kind |-> conv, val |-> c.val]]
    /\ UNCHANGED progVars

\* a likelihood component that runs to its end on the model
ComponentCall ==
    /\ call.op = "units"
    /\ \E fn \in LikelihoodFns, annuli \in 1..MaxAnnuli :
         LET d == ApplyConversions(call.model.d, ConversionsOf(fn, annuli))
         IN /\ fn # "likelihood_mass_func" => annuli = 1
            /\ d.e3 <= MaxScalings
            /\ call' = [call EXCEPT !.model.d = d,
                                    !.last = [kind |-> fn, val |-> d]]
    /\ UNCHANGED progVars

NextUnits == ConversionCall \/ ComponentCall

SpecUnits == InitUnits /\ [][NextUnits]_vars

\* C18: after any sequence of calls to the unit conversions and to the
\* likelihood components on a Model, its distance d has the value it had
\* when construction finished.
C18_ModelNeverMutated ==
    call.op = "units" => call.model.d = call.built.d

---------------------------------------------------------------------------
\* posterior called by concurrent workers on one Observations, one
\* fixed_initials and one L_components (the sampler's pool).  Each call has
\* its own theta, merged dict, Model and probs; the steps of the calls
\* interleave.  The numbers a call computes are functions of what it reads:
\* a component's value is held as the record of the component, the merged
\* theta and the model distance it was computed from, and whether the
\* profile solver converges is a function of theta fixed beforehand.

MaxWorkers == 2

WorkerIds == 1..MaxWorkers

\* line 577: `model = Model(theta, observations)` is a local of the call,
\* so call i works on the Model it constructed.  A single Model used by
\* every call:
ModelRef_Shared(i) == 1

ModelRef(i) == i

\* datasets whose components run to their end for every Model
WorkerDatasets ==
    { MkDataset(<<"velocity_dispersion">>, {"r", "sigma", "D_sigma"}, NoM, <<1>>, FALSE),
      MkDataset(<<"number_density">>, {"r", "Sigma", "D_Sigma"}, NoM, <<1>>, FALSE),
      MkDataset(<<"proper_motion">>, {"r", "PM_tot", "D_PM_tot"}, NoM, <<1>>, FALSE),
      MkDataset(<<"mass_function">>, MassFuncVars, NoM, <<1>>, FALSE) }

\* Observations of two datasets, the first one a kinematic dataset
WorkerObservations ==
    {[datasets |-> dss, mdata |-> PulsarMdata] :
        dss \in {d \in DistinctKeySeqs(WorkerDatasets, 2) :
                    /\ Len(d) = 2
                    /\ d[1].key \in {<<"velocity_dispersion">>, <<"proper_motion">>}
                    /\ d[2].key \in {<<"number_density">>, <<"mass_function">>}}}

\* the thetas the sampler proposes: two inside the prior, one outside
WorkerThetas ==
    {DEFAULT_INITIALS,
     [DEFAULT_INITIALS EXCEPT !["d"] = PriorLo("d") + 1],
     [DEFAULT_INITIALS EXCEPT !["W0"] = PriorLo("W0")]}

IdleWorker ==
    [pc |-> "idle", tf |-> <<>>, theta |-> EmptyMap, probs |-> <<>>,
     result |-> <<>>, overlapped |-> FALSE]

NoWorkerModel == [theta |-> EmptyMap, d |-> [kpc |-> 0, e3 |-> 0]]

\* the value a component computes on a model
ComponentValue(c, mdl) ==
    [fn |-> c.fn, key |-> c.key, args |-> c.args, theta |-> mdl.theta, d |-> mdl.d]

\* the model after the component has run to its end
WorkerModelAfter(c, mdl) ==
    [mdl EXCEPT !.d = ApplyConversions(@, ConversionsOf(c.fn, 1))]

\* line 588: sum(probs), probs, passed on as probability, *individuals
WorkerReturn(ps) == <<[sum |-> ps]>> \o ps

\* posterior(theta, observations, fixed_initials, L_components) run by
\* itself from its first to its last statement
RECURSIVE AloneProbs(_, _, _, _)
AloneProbs(cs, k, mdl, ps) ==
    IF k > Len(cs) THEN ps
    ELSE AloneProbs(cs, k + 1, WorkerModelAfter(cs[k], mdl),
                    Append(ps, ComponentValue(cs[k], mdl)))

Alone(tf, fx, cs, converges) ==
    LET th == MergeTheta(tf, fx)
    IN IF PriorCheck(th) = "outside" THEN PriorReturn(Len(cs))
       ELSE IF ~converges[th] THEN FailedReturn("posterior", Len(cs))
       ELSE WorkerReturn(AloneProbs(cs, 1,
                [theta |-> th, d |-> [kpc |-> th["d"], e3 |-> 0]], <<>>))

InitWorkers ==
    /\ \E o \in WorkerObservations :
         /\ obs = o
         /\ comps = determine_components(o).comps
         /\ kdeFits = determine_components(o).fits
    /\ dpc = "dispatched"
    /\ EvalIdle
    /\ \E F \in EvalFixedSets,
          cv \in [{th \in WorkerThetas : PriorCheck(th) = "inside"} -> BOOLEAN] :
         call = [op |-> "workers",
                 fixed_initials |-> [n \in F |-> DEFAULT_INITIALS[n]],
                 converges |-> cv,
                 loaded |-> [obs |-> obs, comps |-> comps],
                 w |-> [i \in WorkerIds |-> IdleWorker],
                 models |-> [i \in WorkerIds |-> NoWorkerModel]]

\* another call is between its first and its last statement
OtherRunning(i) ==
    \E j \in WorkerIds \ {i} : call.w[j].pc \in {"model", "components"}

Stepped(i, w) == [w EXCEPT !.overlapped = @ \/ OtherRunning(i)]

\* lines 592-613: worker i enters posterior, merges theta and evaluates the
\* prior
WorkerPosterior(i) ==
    /\ call.op = "workers"
    /\ call.w[i].pc = "idle"
    /\ \E th \in WorkerThetas :
         LET tf     == SplitTheta(th, DOMAIN call.fixed_initials).tf
             merged == MergeTheta(tf, call.fixed_initials)
         IN /\ merged \in WorkerThetas
            /\ call' = [call EXCEPT !.w[i] =
                 Stepped(i,
                   IF PriorCheck(merged) = "outside"
                   THEN [@ EXCEPT !.tf = tf, !.theta = merged,
                                  !.result = PriorReturn(Len(comps)),
                                  !.pc = "returned"]
                   ELSE [@ EXCEPT !.tf = tf, !.theta = merged, !.pc = "model"])]
    /\ UNCHANGED progVars

\* lines 576-580: the Model of the call is constructed, or the solver
\* raises ValueError and the call returns
WorkerModel(i) ==
    /\ call.op = "workers"
    /\ call.w[i].pc = "model"
    /\ IF call.converges[call.w[i].theta]
       THEN call' = [call EXCEPT
                        !.models[ModelRef(i)] =
                            [theta |-> call.w[i].theta,
                             d |-> [kpc |-> call.w[i].theta["d"], e3 |-> 0]],
                        !.w[i] = Stepped(i, [@ EXCEPT !.pc = "components"])]
       ELSE call' = [call EXCEPT !.w[i] =
                        Stepped(i, [@ EXCEPT
                            !.result = FailedReturn("posterior", Len(comps)),
                            !.pc = "returned"])]
    /\ UNCHANGED progVars

\* lines 583-586: the next component on the Model of the call
WorkerComponent(i) ==
    /\ call.op = "workers"
    /\ call.w[i].pc = "components"
    /\ Len(call.w[i].probs) < Len(comps)
    /\ LET c   == comps[Len(call.w[i].probs) + 1]
           mdl == call.models[ModelRef(i)]
       IN /\ WorkerModelAfter(c, mdl).d.e3 <= MaxScalings
          /\ call' = [call EXCEPT
                        !.models[ModelRef(i)] = WorkerModelAfter(c, mdl),
                        !.w[i] = Stepped(i, [@ EXCEPT
                            !.probs = Append(@, ComponentValue(c, mdl))])]
    /\ UNCHANGED progVars

\* lines 588 and 617
WorkerReturns(i) ==
    /\ call.op = "workers"
    /\ call.w[i].pc = "components"
    /\ Len(call.w[i].probs) = Len(comps)
    /\ call' = [call EXCEPT !.w[i] =
                  Stepped(i, [@ EXCEPT !.result = WorkerReturn(call.w[i].probs),
                                       !.pc = "returned"])]
    /\ UNCHANGED progVars

NextWorkers ==
    \E i \in WorkerIds :
        \/ WorkerPosterior(i)
        \/ WorkerModel(i)
        \/ WorkerComponent(i)
        \/ WorkerReturns(i)

SpecWorkers == InitWorkers /\ [][NextWorkers]_vars

\* C19: under every interleaving of the workers' evaluations the shared
\* Observations, its datasets and the component list keep the value they
\* were loaded with, and every evaluation returns what the same call
\* returns when it runs alone.
C19_ConcurrentPosterior ==
    call.op = "workers" =>
        /\ obs = call.loaded.obs
        /\ comps = call.loaded.comps
        /\ \A i \in WorkerIds :
              call.w[i].pc = "returned" =>
                  call.w[i].result =
                      Alone(call.w[i].tf, call.fixed_initials, comps, call.converges)

C19_Witness ==
    /\ call.op = "workers"
    /\ \A i \in WorkerIds :
          /\ call.w[i].pc = "returned"
          /\ call.w[i].overlapped
          /\ Len(call.w[i].probs) = Len(comps)
    /\ Len(comps) = 2
    /\ call.w[1].theta # call.w[2].theta

---------------------------------------------------------------------------
\* Observations.__init__ and _find_groups (data.py lines 220-276): the
\* groups of the file that become datasets.  A file is a map from the paths
\* of its objects to their kind, "group" or "dataset"; a path is the
\* sequence of the names that '/' separates in the key.

\* the largest number of objects of a file
MaxObjects == 4

\* object names, in the order visititems meets them (by name)
ObjectNames == <<"a", "initials", "r">>

NoFile == [p \in {} |-> "group"]

\* f with one more object q
WithObject(f, q, kind) ==
    [p \in DOMAIN f \cup {q} |-> IF p = q THEN kind ELSE f[p]]

\* the places a new object can take in f: at the top or in a group
FreePaths(f) ==
    {Append(par, ObjectNames[k]) :
        par \in {<<>>} \cup {p \in DOMAIN f : f[p] = "group"},
        k \in 1..Len(ObjectNames)} \ DOMAIN f

\* the files of at most n objects
RECURSIVE Files(_)
Files(n) ==
    IF n = 0 THEN {NoFile}
    ELSE LET smaller == Files(n - 1)
         IN smaller \cup
            UNION {{WithObject(f, q, kind) :
                        q \in FreePaths(f), kind \in {"group", "dataset"}} :
                   f \in smaller}

\* visititems: every object under p, a group before its members, the
\* members of one group by name
RECURSIVE VisitFrom(_, _, _)
VisitFrom(f, p, k) ==
    IF k > Len(ObjectNames) THEN <<>>
    ELSE LET q == Append(p, ObjectNames[k])
         IN (IF q \in DOMAIN f THEN <<q>> \o VisitFrom(f, q, 1) ELSE <<>>)
            \o VisitFrom(f, p, k + 1)

VisitItems(f) == VisitFrom(f, <<>>, 1)

\* list.remove(x): the list without the first x
ListRemove(list, x) ==
    LET i == IndexOf(list, x)
    IN SubSeq(list, 1, i - 1) \o SubSeq(list, i + 1, Len(list))

\* a walker that appends the group and leaves its parent in the list
Walker_KeepParents(groups, key, kind, exclude_initials) ==
    IF kind # "group" THEN groups
    ELSE IF exclude_initials /\ key = <<"initials">> THEN groups
    ELSE Append(groups, key)

\* _walker(key, obj), lines 223-238: rsplit('/', maxsplit=1) yields one part
\* for a key without '/', and the unpacking then raises the ValueError that
\* is caught, as does groups.remove(parent) for a parent that is not listed
Walker(groups, key, kind, exclude_initials) ==
    IF kind # "group" THEN groups
    ELSE IF exclude_initials /\ key = <<"initials">> THEN groups
    ELSE IF Len(key) < 2 THEN Append(groups, key)
    ELSE LET parent == SubSeq(key, 1, Len(key) - 1)
         IN IF parent \in Range(groups)
            THEN Append(ListRemove(groups, parent), key)
            ELSE Append(groups, key)

RECURSIVE WalkFrom(_, _, _, _, _)
WalkFrom(f, visit, i, groups, exclude_initials) ==
    IF i > Len(visit) THEN groups
    ELSE WalkFrom(f, visit, i + 1,
                  Walker(groups, visit[i], f[visit[i]], exclude_initials),
                  exclude_initials)

\* _find_groups(root_group, exclude_initials=True)
FindGroups(f, exclude_initials) ==
    WalkFrom(f, VisitItems(f), 1, <<>>, exclude_initials)

\* lines 258-259: one Dataset per group found, under the group's key; the
\* variables of a Dataset are the h5py datasets below its group
LoadObservations(f) ==
    LET groups == FindGroups(f, TRUE)
    IN [keys |-> groups,
        variables |-> [k \in 1..Len(groups) |->
                         {p \in DOMAIN f :
                             /\ f[p] = "dataset"
                             /\ Len(p) > Len(groups[k])
                             /\ SubSeq(p, 1, Len(groups[k])) = groups[k]}]]

InitLoad ==
    /\ ProgIdle
    /\ \E f \in Files(MaxObjects) :
         call = [op |-> "Observations", in |-> f, out |-> NotCalled]

ObservationsInit ==
    /\ call.op = "Observations"
    /\ call.out.kind = "not called"
    /\ call' = [call EXCEPT !.out = Returned(LoadObservations(call.in))]
    /\ UNCHANGED progVars

NextLoad == ObservationsInit

SpecLoad == InitLoad /\ [][NextLoad]_vars

IsPrefix(p, q) == Len(p) < Len(q) /\ SubSeq(q, 1, Len(p)) = p

\* the groups of f that contain no group
LeafGroups(f) ==
    {p \in DOMAIN f :
        /\ f[p] = "group"
        /\ ~\E q \in DOMAIN f : f[q] = "group" /\ IsPrefix(p, q)}

\* C20: the datasets of a loaded Observations are exactly the leaf groups
\* of the file other than the top-level 'initials', each once: no dataset
\* key is a path prefix of another, and no leaf group is missing.
C20_LeafGroupsRetained ==
    (call.op = "Observations" /\ call.out.kind = "value") =>
        LET keys == call.out.val.keys
        IN /\ Range(keys) = LeafGroups(call.in) \ {<<"initials">>}
           /\ \A i, j \in 1..Len(keys) : i # j => keys[i] # keys[j]
           /\ \A i, j \in 1..Len(keys) : ~IsPrefix(keys[i], keys[j])

\* a group with two sub-groups, one of them nested further, beside a
\* top-level 'initials'
C20_Witness ==
    /\ call.op = "Observations"
    /\ call.out.kind = "value"
    /\ {<<"a">>, <<"a", "a">>, <<"a", "r">>, <<"initials">>} \subseteq DOMAIN call.in
    /\ \A p \in DOMAIN call.in : call.in[p] = "group"
    /\ call.out.val.keys = <<<<"a", "a">>, <<"a", "r">>>>

---------------------------------------------------------------------------
\* C21: with force=False, save writes the live data when every live dataset
\* passes validation and writes nothing when one fails; with force=True it
\* writes in both cases.
C21_SaveWritesValid ==
    (call.op = "save" /\ call.out.kind # "not called") =>
        LET t == TestDataset(call.in.ds.key, call.in.ds)
        IN /\ (~call.in.force /\ t = "True") => call.out.kind = "written"
           /\ (~call.in.force /\ t = "False") => call.out.kind = "abandoned"
           /\ (call.in.force /\ t \in {"True", "False"}) => call.out.kind = "written"

---------------------------------------------------------------------------
\* posterior has gone on to construct the Model
ReachedModel == pc = "model" \/ trace # <<>>

OnPriorBound(th) ==
    \E n \in ParamNames : th[n] = PriorLo(n) \/ th[n] = PriorHi(n)

\* C22: posterior goes on to the Model construction if and only if every
\* parameter lies strictly inside its open prior interval; a theta with a
\* value equal to a bound of its interval is answered with -inf.
C22_OpenPriorIntervals ==
    (entry = "posterior" /\ pc # "idle") =>
        /\ ReachedModel <=> InsidePrior(theta.val)
        /\ (DOMAIN theta.val = ParamNames /\ OnPriorBound(theta.val)) =>
               /\ pc = "returned"
               /\ AllNegInf(result)
               /\ ~ReachedModel

C22_Witness ==
    /\ entry = "posterior"
    /\ DOMAIN theta.val = ParamNames
    /\ theta.val["d"] = PriorHi("d")
    /\ \A n \in ParamNames \ {"d"} : theta.val[n] = DEFAULT_INITIALS[n]
    /\ pc = "returned"
    /\ AllNegInf(result)
    /\ Len(comps) >= 1

---------------------------------------------------------------------------
\* cluster_component has returned a distribution
ClusterReturned == ClusterCalled /\ call.out.kind = "value"

\* C23: when the loop converges at step k, every sample that contributed to
\* the accumulated area (indices mid-k-1 to mid+k+1) keeps its value and
\* every sample outside that range is zero.
C23_ContributorsKept ==
    (ClusterReturned /\ call.out.val.stop = "converged") =>
        LET o == call.out.val
        IN \A i \in 0..(Len(o.computed) - 1) :
              IF o.mid - o.ind - 1 <= i /\ i <= o.mid + o.ind + 1
              THEN At(o.Paz_dist, i) = At(o.computed, i)
              ELSE At(o.Paz_dist, i) = 0

\* C24: when the loop runs over the whole half-domain without converging
\* and without exceeding the target, the function returns and no sample
\* is zeroed.
C24_NothingCutWhenExhausted ==
    (ClusterCalled /\ call.in.R < call.in.model.rt) =>
        /\ call.out.kind = "value"
        /\ call.out.val.stop = "exhausted" =>
               call.out.val.Paz_dist = call.out.val.computed

\* C30: whatever step the loop stops at, the central sample is retained,
\* so a distribution that is not identically zero is not returned as
\* identically zero.
C30_CentralSampleRetained ==
    ClusterReturned =>
        LET o == call.out.val
        IN /\ At(o.Paz_dist, o.mid) = At(o.computed, o.mid)
           /\ At(o.computed, o.mid) # 0 =>
                  \E i \in 1..Len(o.Paz_dist) : o.Paz_dist[i] # 0

---------------------------------------------------------------------------
\* _get_chains of the run visualizers (visualize/runs.py lines 214-235 and
\* 626-653): the stored chain has one column per free parameter, the fixed
\* parameters and their values are in the run metadata.

\* the number of samples of a stored chain
MaxSamples == 2

\* np.insert(row, i, v) for 0 <= i <= len(row)
InsertAt(row, i, v) == SubSeq(row, 1, i) \o <<v>> \o SubSeq(row, i + 1, Len(row))

\* the label left as it is
FixedLabel_Unmarked(l) == l

\* labels[i] += ' (fixed)'
FixedLabel(l) == l \o " (fixed)"

\* sorted(((k, v, labels.index(k)) for k, v in attrs.items()),
\*        key=lambda item: labels.index(item[0]))
SortedFixed(fx) ==
    LET ks == SortByIndex(DOMAIN fx)
    IN [j \in 1..Len(ks) |->
          [k |-> ks[j], v |-> fx[ks[j]], i |-> IndexOf(Params, ks[j]) - 1]]

\* for k, v, i in fixed: labels[i] += ' (fixed)'; chain = np.insert(chain, i, v, axis=-1)
RECURSIVE InsertFixed(_, _, _, _)
InsertFixed(fixedSeq, j, labels, chain) ==
    IF j > Len(fixedSeq) THEN [labels |-> labels, chain |-> chain]
    ELSE LET f == fixedSeq[j]
         IN InsertFixed(fixedSeq, j + 1,
                [labels EXCEPT ![f.i + 1] = FixedLabel(@)],
                [s \in 1..Len(chain) |-> InsertAt(chain[s], f.i, f.v)])

\* for *_, i in reversed(fixed): del labels[i]
RECURSIVE DeleteFixed(_, _, _)
DeleteFixed(fixedSeq, j, labels) ==
    IF j < 1 THEN labels
    ELSE DeleteFixed(fixedSeq, j - 1,
             SubSeq(labels, 1, fixedSeq[j].i)
                 \o SubSeq(labels, fixedSeq[j].i + 2, Len(labels)))

\* _get_chains(); include_fixed is a parameter of the nested visualizer only
get_chains(in) ==
    IF ~in.has_meta THEN [labels |-> Params, chain |-> in.chain]
    ELSE IF in.include_fixed
    THEN InsertFixed(SortedFixed(in.fixed), 1, Params, in.chain)
    ELSE [labels |-> DeleteFixed(SortedFixed(in.fixed), Len(SortedFixed(in.fixed)), Params),
          chain |-> in.chain]

\* a run with the parameters of F fixed: sample s holds 100 * s + j for the
\* free parameter of canonical position j, the fixed value of the parameter
\* of position j is 9000 + j
StoredRun(F, n) ==
    [fixed |-> [k \in F |-> 9000 + IndexOf(Params, k)],
     chain |-> [s \in 1..n |->
                  [c \in 1..Len(FreeNames(F)) |->
                      100 * s + IndexOf(Params, FreeNames(F)[c])]]]

ChainInputs ==
    {[visualizer |-> vz[1], include_fixed |-> vz[2], has_meta |-> TRUE,
      fixed |-> StoredRun(F, MaxSamples).fixed,
      chain |-> StoredRun(F, MaxSamples).chain] :
        vz \in {<<"MCMC", TRUE>>, <<"Nested", TRUE>>, <<"Nested", FALSE>>},
        F \in SUBSET ParamNames}
    \cup {[visualizer |-> v, include_fixed |-> TRUE, has_meta |-> FALSE,
           fixed |-> EmptyMap, chain |-> StoredRun({}, MaxSamples).chain] :
             v \in {"MCMC", "Nested"}}

InitChains ==
    /\ ProgIdle
    /\ \E in \in ChainInputs :
         call = [op |-> "_get_chains", in |-> in, out |-> NotCalled]

GetChains ==
    /\ call.op = "_get_chains"
    /\ call.out.kind = "not called"
    /\ call' = [call EXCEPT !.out = Returned(get_chains(call.in))]
    /\ UNCHANGED progVars

NextChains == GetChains

SpecChains == InitChains /\ [][NextChains]_vars

\* C26: for every set of fixed parameters in the run metadata the returned
\* chain has one column per canonical parameter in canonical order: every
\* sample is the theta posterior merges from the sampled values and the
\* fixed values (so a fixed column holds the fixed value and the other
\* columns are the sampled ones in their order), and label i names column
\* i, marked ' (fixed)' when the parameter is fixed.
C26_ChainsInvertMerge ==
    (/\ call.op = "_get_chains"
     /\ call.out.kind = "value"
     /\ call.in.has_meta
     /\ call.in.include_fixed) =>
        LET o == call.out.val
        IN /\ Len(o.labels) = Len(Params)
           /\ \A i \in 1..Len(Params) :
                 o.labels[i] = IF Params[i] \in DOMAIN call.in.fixed
                               THEN Params[i] \o " (fixed)" ELSE Params[i]
           /\ Len(o.chain) = Len(call.in.chain)
           /\ \A s \in 1..Len(o.chain) :
                 /\ Len(o.chain[s]) = Len(Params)
                 /\ \A i \in 1..Len(Params) :
                       o.chain[s][i] =
                           MergeTheta(call.in.chain[s], call.in.fixed)[Params[i]]

C26_Witness ==
    /\ call.op = "_get_chains"
    /\ call.out.kind = "value"
    /\ call.in.has_meta
    /\ call.in.include_fixed
    /\ DOMAIN call.in.fixed = {"M", "F", "d"}
    /\ call.out.val.chain[1] =
          <<101, 9002, 103, 104, 105, 106, 107, 9008, 109, 110, 111, 112, 9013>>
    /\ call.out.val.labels[2] = "M (fixed)"

---------------------------------------------------------------------------
\* The live entries of ClusterFile (bin/file_creator.py lines 68-160):
\* add_dataset and add_metadata store a value in the object, get_dataset
\* and get_metadata read it back or read the file.

FileKeys == {"a", "b"}
FileValues == {1, 2}
FileMaps == UNION {[K -> {1}] : K \in SUBSET FileKeys}

MapPut(m, k, v) == [x \in DOMAIN m \cup {k} |-> IF x = k THEN v ELSE m[x]]
MapDel(m, k) == [x \in DOMAIN m \ {k} |-> m[x]]

\* get_dataset(key, reset): `self.live_datasets()` calls the dict
get_dataset(cf, key, reset) ==
    [out |-> Raised("TypeError"), live_datasets |-> cf.live_datasets]

\* get_metadata(key, reset)
get_metadata(cf, key, reset) ==
    IF key \in DOMAIN cf.live_metadata /\ ~reset
    THEN [out |-> Returned(cf.live_metadata[key]),
          live_metadata |-> cf.live_metadata]
    ELSE [out |-> IF key \in DOMAIN cf.attrs
                  THEN Returned(cf.attrs[key]) ELSE Raised("KeyError"),
          live_metadata |-> MapDel(cf.live_metadata, key)]

NoFileCall == [op |-> "none", key |-> "", reset |-> FALSE, out |-> NotCalled]

InitFile ==
    /\ ProgIdle
    /\ \E f \in FileMaps, a \in FileMaps :
         call = [op |-> "ClusterFile", file |-> f, attrs |-> a,
                 live_datasets |-> EmptyMap, live_metadata |-> EmptyMap,
                 last |-> NoFileCall]

AddDataset ==
    /\ call.op = "ClusterFile"
    /\ \E k \in FileKeys, v \in FileValues :
         call' = [call EXCEPT
                    !.live_datasets = MapPut(call.live_datasets, k, v),
                    !.last = [op |-> "add_dataset", key |-> k, reset |-> FALSE,
                              out |-> Returned(0)]]
    /\ UNCHANGED progVars

GetDataset ==
    /\ call.op = "ClusterFile"
    /\ \E k \in FileKeys, reset \in BOOLEAN :
         LET g == get_dataset(call, k, reset)
         IN call' = [call EXCEPT
                       !.live_datasets = g.live_datasets,
                       !.last = [op |-> "get_dataset", key |-> k,
                                 reset |-> reset, out |-> g.out]]
    /\ UNCHANGED progVars

AddMetadata ==
    /\ call.op = "ClusterFile"
    /\ \E k \in FileKeys, v \in FileValues :
         call' = [call EXCEPT
                    !.live_metadata = MapPut(call.live_metadata, k, v),
                    !.last = [op |-> "add_metadata", key |-> k, reset |-> FALSE,
                              out |-> Returned(0)]]
    /\ UNCHANGED progVars

GetMetadata ==
    /\ call.op = "ClusterFile"
    /\ \E k \in FileKeys, reset \in BOOLEAN :
         LET g == get_metadata(call, k, reset)
         IN call' = [call EXCEPT
                       !.live_metadata = g.live_metadata,
                       !.last = [op |-> "get_metadata", key |-> k,
                                 reset |-> reset, out |-> g.out]]
    /\ UNCHANGED progVars

NextFile == AddDataset \/ GetDataset \/ AddMetadata \/ GetMetadata

SpecFile == InitFile /\ [][NextFile]_vars

\* C27: a getter that finds a live entry under its key returns the live
\* value when reset is not set; with reset it removes the live entry and
\* returns what the file holds under the key; this for datasets and for
\* metadata alike.
C27_LiveShadowsFile ==
    [][(call.op = "ClusterFile" /\ call'.last.op \in {"get_dataset", "get_metadata"}) =>
        LET live == IF call'.last.op = "get_dataset"
                    THEN call.live_datasets ELSE call.live_metadata
            liveAfter == IF call'.last.op = "get_dataset"
                         THEN call'.live_datasets ELSE call'.live_metadata
            held == IF call'.last.op = "get_dataset" THEN call.file ELSE call.attrs
            k == call'.last.key
        IN k \in DOMAIN live =>
             IF ~call'.last.reset
             THEN call'.last.out = Returned(live[k])
             ELSE /\ k \notin DOMAIN liveAfter
                  /\ k \in DOMAIN held => call'.last.out = Returned(held[k])]_vars

\* the metadata half of the statement alone
MetadataShadowsFile ==
    [][(call.op = "ClusterFile" /\ call'.last.op = "get_metadata"
          /\ call'.last.key \in DOMAIN call.live_metadata) =>
        IF ~call'.last.reset
        THEN call'.last.out = Returned(call.live_metadata[call'.last.key])
        ELSE /\ call'.last.key \notin DOMAIN call'.live_metadata
             /\ call'.last.key \in DOMAIN call.attrs =>
                    call'.last.out = Returned(call.attrs[call'.last.key])]_vars

---------------------------------------------------------------------------
(* The tracer bin of a dataset, under Spec *)

\* the number of datasets with an m in front of the dataset of the last
\* direct call
TracersBeforeQuery ==
    LET j == CHOOSE i \in 1..Len(obs.datasets) : obs.datasets[i].key = binq.key
    IN Len(Concat([i \in 1..(j - 1) |-> obs.datasets[i].m]))

\* the Python index of the bin appended for the dataset of the last direct call
TracerBinOfQuery ==
    Len(model.mj) - Len(TracerMasses) + TracersBeforeQuery

\* C29: a likelihood function called without mass_bin on a dataset that
\* has an m resolves a bin, and it is the tracer bin appended for that
\* dataset, behind the stellar and the remnant bins.
C29_TracerBinResolved ==
    (/\ binq # NoQuery
     /\ binq.fn # "likelihood_mass_func"
     /\ binq.mass_bin = <<>>
     /\ QueryDataset.m # <<>>) =>
        /\ binq.bins = {TracerBinOfQuery}
        /\ TracerBinOfQuery >= Len(model.mj) - Len(TracerMasses)

\* the part that holds: a bin is always resolved and its mean mass is the m
\* of the dataset
C29_ResolvedBinHasMassM ==
    (/\ binq # NoQuery
     /\ binq.fn # "likelihood_mass_func"
     /\ binq.mass_bin = <<>>
     /\ QueryDataset.m # <<>>) =>
        \E i \in 0..(Len(model.mj) - 1) :
            binq.bins = {i} /\ model.mj[i + 1] = QueryDataset.m[1]

\* the width of the stellar bin of the evolved mass function whose mean
\* mass is m: the distance of the two edges of mes around it
StellarBinWidth(m) ==
    LET o == CHOOSE x \in EvalMfOutputs : TRUE
        k == IndexOf(o.ms, m)
    IN o.mes[k + 1] - o.mes[k]

\* C28: for every retained stellar bin index i < nms, mes_widths[i] is the
\* width of the mass bin whose mean mass is mj[i].
C28_WidthsAligned ==
    BinsLaidOut =>
        \A i \in 1..model.nms :
            model.mes_widths[i] = StellarBinWidth(model.mj[i])

\* the part that holds: the widths are those of all the bins of the evolved
\* mass function, dropped or not, so they are aligned with mj exactly when
\* no dropped bin is in front of a retained one
C28_WidthsOfAllBins ==
    BinsLaidOut =>
        LET o == CHOOSE x \in EvalMfOutputs : TRUE
        IN /\ Len(model.mes_widths) = Len(o.ms)
           /\ \A k \in 1..Len(o.ms) : model.mes_widths[k] = StellarBinWidth(o.ms[k])

===========================================================================
